---- MODULE Spec2Model ----
(***************************************************************************)
(* Model of lsu's concurrent refresh/action engine: the controller loop    *)
(* of src/app/tui/mod.rs, the worker threads of src/app/tui/workers.rs,    *)
(* the detail-view state of src/types.rs and the row helpers of            *)
(* src/rows.rs.                                                            *)
(*                                                                         *)
(* Unit names are modelled as the integers 1..NumUnits (numeric order is   *)
(* the string order of the names); 0 stands for the empty string.          *)
(* Option<T> is modelled as a set with at most one element.                *)
(***************************************************************************)
EXTENDS Integers, Sequences, FiniteSets, TLC

\* ------------------------------------------------------------------ bounds
NumUnits == 1
MaxRequestId == 2
MaxDetailLogs == 1
MaxWorkerUnits == 25
MaxBatchUnits == 3
MaxLargeBatchUnits == 20
MaxBudgetUnits == 50
MaxBudgetAttempt == 12
MaxStreamLen == 2
MaxRowUnits == 3
MaxRowsLen == 2
MaxPathLen == 1
MaxChildWrites == 2
MaxPipeChunks == 1

\* -------------------------------------------------------- program constants
LOG_BATCH_SIZE == 12

Units == 1..NumUnits
NoUnit == 0
None == {}
Some(x) == {x}

Min(a, b) == IF a < b THEN a ELSE b

\* saturating_sub(1) on usize
saturating_sub_1(x) == IF x = 0 THEN 0 ELSE x - 1

\* The entries of a detail fetch: n lines, newest first, all of one unit.
DetailLogs(unit, n) == [i \in 1..n |-> unit]

VARIABLES
    pc,                            \* position of the controller in its loop
    config,                        \* Config (load/active/sub filters)
    refresh_requested, phase, loaded_once,
    last_load_error, last_load_error_message,
    rows, row_index_by_unit, selected_idx,
    view_mode, detail, confirmation,
    status_line, status_line_overrides_stale,
    refreshW,                      \* refresh worker threads and their channels
    detailW,                       \* detail worker threads and their channels
    resolutionW,                   \* action-resolution workers
    actionW,                       \* unit-action workers
    ev,                            \* the step taken last (observation only)
    call                           \* a library function run on its own: its
                                   \* arguments, locals and return value

listVars == <<refresh_requested, phase, loaded_once, last_load_error,
              last_load_error_message, rows, row_index_by_unit, selected_idx>>
workerVars == <<refreshW, detailW, resolutionW, actionW>>
statusVars == <<status_line, status_line_overrides_stale>>
vars == <<pc, config, listVars, view_mode, detail, confirmation, statusVars,
          workerVars, ev, call>>

\* No library function is being run on its own.
NoCall == [fn |-> "none"]

Ev(op, unit, request_id, n, ok) ==
    [op |-> op, unit |-> unit, request_id |-> request_id, n |-> n, ok |-> ok]

\* ===================================================== DetailState (types.rs)
DetailDefault ==
    [unit |-> NoUnit, logs |-> <<>>, scroll |-> 0, loading |-> FALSE,
     error |-> None, next_request_id |-> 0, active_request_id |-> None]

\* u64::saturating_add(1); the saturation point 2^64-1 lies beyond every
\* bound of the model (request ids are capped by MaxRequestId in the guards).
saturating_add_1(x) == x + 1

begin_for_unit_keeps_logs(d, unit) ==
    [d EXCEPT !.unit = unit, !.loading = TRUE, !.error = None,
              !.next_request_id = saturating_add_1(d.next_request_id),
              !.active_request_id = Some(saturating_add_1(d.next_request_id))]

\* begin_for_unit: the returned id is the new next_request_id.
begin_for_unit(d, unit) ==
    [d EXCEPT !.unit = unit, !.logs = <<>>, !.scroll = 0, !.loading = TRUE,
              !.error = None,
              !.next_request_id = saturating_add_1(d.next_request_id),
              !.active_request_id = Some(saturating_add_1(d.next_request_id))]

refresh_reuses_id(d) ==
    IF d.unit = NoUnit
    THEN [d |-> d, ret |-> None]
    ELSE [d |-> [d EXCEPT !.loading = TRUE, !.error = None,
                          !.active_request_id = Some(d.next_request_id)],
          ret |-> Some(d.next_request_id)]

\* refresh: [d |-> new state, ret |-> Option<u64>]
refresh(d) ==
    IF d.unit = NoUnit
    THEN [d |-> d, ret |-> None]
    ELSE [d |-> [d EXCEPT !.loading = TRUE, !.error = None,
                          !.next_request_id = saturating_add_1(d.next_request_id),
                          !.active_request_id =
                              Some(saturating_add_1(d.next_request_id))],
          ret |-> Some(saturating_add_1(d.next_request_id))]

apply_loaded_without_id_check(d, request_id, unit, logs) ==
    IF d.unit # unit
    THEN [d |-> d, ret |-> FALSE]
    ELSE [d |-> [d EXCEPT !.logs = logs,
                          !.scroll = IF logs = <<>> THEN 0
                                     ELSE Min(d.scroll, Len(logs) - 1),
                          !.loading = FALSE, !.error = None],
          ret |-> TRUE]

\* apply_loaded: [d |-> new state, ret |-> bool]
apply_loaded(d, request_id, unit, logs) ==
    IF d.active_request_id # Some(request_id) \/ d.unit # unit
    THEN [d |-> d, ret |-> FALSE]
    ELSE [d |-> [d EXCEPT !.logs = logs,
                          !.scroll = IF logs = <<>> THEN 0
                                     ELSE Min(d.scroll, Len(logs) - 1),
                          !.loading = FALSE, !.error = None],
          ret |-> TRUE]

apply_error_keeps_loading(d, request_id, unit, error) ==
    IF d.active_request_id # Some(request_id) \/ d.unit # unit
    THEN [d |-> d, ret |-> FALSE]
    ELSE [d |-> [d EXCEPT !.error = Some(error)], ret |-> TRUE]

\* apply_error: [d |-> new state, ret |-> bool]
apply_error(d, request_id, unit, error) ==
    IF d.active_request_id # Some(request_id) \/ d.unit # unit
    THEN [d |-> d, ret |-> FALSE]
    ELSE [d |-> [d EXCEPT !.loading = FALSE, !.error = Some(error)],
          ret |-> TRUE]

\* ============================================================ Config (cli.rs)
\* The filter bundle passed by value into every query.
Configs ==
    { [load_filter |-> "all", active_filter |-> "all", sub_filter |-> "all"],
      [load_filter |-> "loaded", active_filter |-> "active",
       sub_filter |-> "running"] }

\* ==================================================== Query layer (systemd.rs)
filter_matches(value, wanted) == wanted = "all" \/ value = wanted

is_full_all(cfg) ==
    cfg.load_filter = "all" /\ cfg.active_filter = "all" /\ cfg.sub_filter = "all"

should_fetch_all_ignores_sub(cfg) ==
    ~((cfg.load_filter = "all" \/ cfg.load_filter = "loaded")
      /\ cfg.active_filter = "active")

should_fetch_all(cfg) ==
    ~((cfg.load_filter = "all" \/ cfg.load_filter = "loaded")
      /\ cfg.active_filter = "active" /\ cfg.sub_filter = "running")

\* filter_services over a sequence of SystemctlUnit records
filter_services(units, cfg) ==
    SelectSeq(units, LAMBDA u :
        /\ filter_matches(u.load, cfg.load_filter)
        /\ filter_matches(u.active, cfg.active_filter)
        /\ filter_matches(u.sub, cfg.sub_filter))

\* The (load, active, sub) states a unit of the host may be in.
UnitStates ==
    { [load |-> "loaded", active |-> "active", sub |-> "running"],
      [load |-> "loaded", active |-> "failed", sub |-> "failed"] }

SystemctlUnit(u, st) ==
    [unit |-> u, load |-> st.load, active |-> st.active, sub |-> st.sub]

\* What `systemctl list-units --output=json` can print for the unit names in
\* `names`: every subset of the names, each unit in any state, listed by name.
\* With --state=running only running units are listed.
RECURSIVE ListingsFrom(_, _, _)
ListingsFrom(u, last, show_all) ==
    IF u > last THEN { <<>> }
    ELSE LET rest == ListingsFrom(u + 1, last, show_all)
             sts == IF show_all THEN UnitStates
                    ELSE { st \in UnitStates : st.sub = "running" }
         IN rest \cup { <<SystemctlUnit(u, st)>> \o r : st \in sts, r \in rest }

\* fetch_services: Ok(listing) or Err
FetchResults(show_all) ==
    { [ok |-> TRUE, units |-> l] : l \in ListingsFrom(1, NumUnits, show_all) }
        \cup { [ok |-> FALSE, units |-> <<>>] }

\* A host whose services do not change: every unit is listed, running.
SteadyFetchResults ==
    { [ok |-> TRUE,
       units |-> [u \in 1..NumUnits |->
                     SystemctlUnit(u, [load |-> "loaded", active |-> "active",
                                       sub |-> "running"])]] }

\* ============================================================ Rows (rows.rs)
load_rank(load) == IF load = "loaded" THEN 0 ELSE IF load = "not-found" THEN 1 ELSE 2

active_rank(active) ==
    IF active = "active" THEN 0 ELSE IF active = "inactive" THEN 1 ELSE 2

sub_rank(sub) ==
    IF sub = "running" THEN 0 ELSE IF sub = "exited" THEN 1
    ELSE IF sub = "dead" THEN 2 ELSE 3

\* build_rows: the log cell starts empty (the dot glyph, its style and the
\* description are render-only and not modelled).
build_rows(units) ==
    [i \in 1..Len(units) |->
        [unit |-> units[i].unit, load |-> units[i].load,
         active |-> units[i].active, sub |-> units[i].sub, last_log |-> ""]]

RowLess_IgnoresSub(a, b, show_all) ==
    IF show_all
    THEN \/ load_rank(a.load) < load_rank(b.load)
         \/ /\ load_rank(a.load) = load_rank(b.load)
            /\ \/ active_rank(a.active) < active_rank(b.active)
               \/ /\ active_rank(a.active) = active_rank(b.active)
                  /\ a.unit < b.unit
    ELSE a.unit < b.unit

\* The comparison sort_rows hands to sort_by: a < b under the mode's key.
RowLess(a, b, show_all) ==
    IF show_all
    THEN \/ load_rank(a.load) < load_rank(b.load)
         \/ /\ load_rank(a.load) = load_rank(b.load)
            /\ \/ active_rank(a.active) < active_rank(b.active)
               \/ /\ active_rank(a.active) = active_rank(b.active)
                  /\ \/ sub_rank(a.sub) < sub_rank(b.sub)
                     \/ /\ sub_rank(a.sub) = sub_rank(b.sub)
                        /\ a.unit < b.unit
    ELSE a.unit < b.unit

\* The index a row gets from a stable sort: the number of rows that sort
\* before it (smaller under the key, or equal and earlier in the slice).
SortedPosition(rs, i, show_all) ==
    1 + Cardinality({ j \in 1..Len(rs) :
                        \/ RowLess(rs[j], rs[i], show_all)
                        \/ /\ ~RowLess(rs[i], rs[j], show_all)
                           /\ j < i })

\* sort_rows: slice::sort_by is a stable sort.
sort_rows(rs, show_all) ==
    [k \in 1..Len(rs) |->
        rs[CHOOSE i \in 1..Len(rs) : SortedPosition(rs, i, show_all) = k]]

\* The HashMap<&str,&str> built from previous rows: the last row of a name wins.
PreviousLogOf(previous_rows, unit) ==
    LET idx == { i \in 1..Len(previous_rows) : previous_rows[i].unit = unit }
    IN IF idx = {} THEN None
       ELSE Some(previous_rows[CHOOSE i \in idx : \A j \in idx : j <= i].last_log)

seed_logs_from_previous_by_position(new_rows, previous_rows) ==
    [i \in 1..Len(new_rows) |->
        IF i <= Len(previous_rows)
        THEN [new_rows[i] EXCEPT !.last_log = previous_rows[i].last_log]
        ELSE new_rows[i]]

seed_logs_from_previous(new_rows, previous_rows) ==
    [i \in 1..Len(new_rows) |->
        LET old == PreviousLogOf(previous_rows, new_rows[i].unit)
        IN IF old = None THEN new_rows[i]
           ELSE [new_rows[i] EXCEPT !.last_log = CHOOSE l \in old : TRUE]]

\* rows.iter().position(|r| r.unit == unit), as a 0-based Option<usize>
PositionOf(rs, unit) ==
    LET idx == { i \in 1..Len(rs) : rs[i].unit = unit }
    IN IF idx = {} THEN None
       ELSE Some((CHOOSE i \in idx : \A j \in idx : i <= j) - 1)

preserve_selection_clamps_only(prev_unit, rs, sel) ==
    IF rs = <<>> THEN 0
    ELSE IF sel >= Len(rs) THEN saturating_sub_1(Len(rs))
    ELSE sel

\* preserve_selection: the new selected_idx (0-based)
preserve_selection(prev_unit, rs, sel) ==
    IF rs = <<>> THEN 0
    ELSE IF prev_unit # None /\ PositionOf(rs, CHOOSE u \in prev_unit : TRUE) # None
    THEN CHOOSE i \in PositionOf(rs, CHOOSE u \in prev_unit : TRUE) : TRUE
    ELSE IF sel >= Len(rs) THEN saturating_sub_1(Len(rs))
    ELSE sel

\* rows.get(selected_idx).map(|r| r.unit.clone())
SelectedUnit(rs, sel) == IF sel < Len(rs) THEN Some(rs[sel + 1].unit) ELSE None

\* The HashMap unit -> index rebuilt from the rows (later rows overwrite).
IndexByUnit(rs) ==
    [u \in { rs[i].unit : i \in 1..Len(rs) } |->
        (CHOOSE i \in 1..Len(rs) :
            rs[i].unit = u /\ \A j \in 1..Len(rs) : rs[j].unit = u => j <= i) - 1]

\* ================================================= Status texts (tui/state.rs)
\* A status text is modelled by the values formatted into it.
StatusText(kind, n, unit, done, total, text) ==
    [kind |-> kind, rows |-> n, unit |-> unit, done |-> done, total |-> total,
     text |-> text]

\* logs_progress is an Option<(done, total)>
list_status_text(n, logs_progress) ==
    IF logs_progress # None
       /\ (CHOOSE p \in logs_progress : TRUE)[1] < (CHOOSE p \in logs_progress : TRUE)[2]
    THEN StatusText("logs", n, NoUnit, (CHOOSE p \in logs_progress : TRUE)[1],
                    (CHOOSE p \in logs_progress : TRUE)[2], "")
    ELSE StatusText("list", n, NoUnit, 0, 0, "")

stale_status_text(n) == StatusText("refresh failed (stale data)", n, NoUnit, 0, 0, "")
loading_units_status_text == StatusText("loading units...", 0, NoUnit, 0, 0, "")
action_status_text(n, action, unit) == StatusText("running", n, unit, 0, 0, action)
action_resolution_status_text(n, unit) ==
    StatusText("resolving action for", n, unit, 0, 0, "")
action_complete_status_text(n, action, unit) ==
    StatusText("done", n, unit, 0, 0, action)
action_error_status_text(n, action, unit, error) ==
    StatusText("failed to", n, unit, 0, 0, action \o ": " \o error)
action_resolution_error_status_text(n, unit, error) ==
    StatusText("failed to inspect", n, unit, 0, 0, error)

\* ======================================== Confirmation and actions (types.rs)
confirm_action(action, unit) == [kind |-> "ConfirmAction", action |-> action, unit |-> unit]
restart_or_stop(unit) == [kind |-> "RestartOrStop", action |-> "", unit |-> unit]

\* confirmed_action: Option<UnitAction>
confirmed_action(c) == IF c.kind = "ConfirmAction" THEN Some(c.action) ELSE None

action_for_active_state_OnlyActive(active_state) ==
    IF active_state = "active" THEN "Stop" ELSE "Start"

action_for_active_state(active_state) ==
    IF active_state \in {"active", "activating", "deactivating", "reloading"}
    THEN "Stop" ELSE "Start"

action_for_unit_file_state_EnablesTheRest(unit_file_state) ==
    IF unit_file_state \in {"enabled", "enabled-runtime", "linked", "linked-runtime"}
    THEN [ok |-> TRUE, action |-> "Disable", error |-> ""]
    ELSE [ok |-> TRUE, action |-> "Enable", error |-> ""]

\* action_for_unit_file_state: Ok(action) or Err(message naming the state)
action_for_unit_file_state(unit_file_state) ==
    IF unit_file_state \in {"enabled", "enabled-runtime", "linked", "linked-runtime"}
    THEN [ok |-> TRUE, action |-> "Disable", error |-> ""]
    ELSE IF unit_file_state = "disabled"
    THEN [ok |-> TRUE, action |-> "Enable", error |-> ""]
    ELSE [ok |-> FALSE, action |-> "",
          error |-> "unit file state '" \o unit_file_state
                    \o "' does not support enable/disable"]

\* Values `systemctl show --property ... --value` can print; "" stands for a
\* failed property read.
ActiveStateValues ==
    {"active", "activating", "deactivating", "reloading", "inactive", "failed"}
UnitFileStateValues ==
    {"enabled", "enabled-runtime", "linked", "linked-runtime", "disabled",
     "static", "masked"}

\* select_start_stop_action / select_enable_disable_action on a property read
\* `value` that succeeded (read_ok) or failed.
select_start_stop_action(read_ok, value) ==
    IF read_ok THEN [ok |-> TRUE, action |-> action_for_active_state(value), error |-> ""]
    ELSE [ok |-> FALSE, action |-> "", error |-> "systemctl show ActiveState failed"]

select_enable_disable_action(read_ok, value) ==
    IF read_ok THEN action_for_unit_file_state(value)
    ELSE [ok |-> FALSE, action |-> "", error |-> "systemctl show UnitFileState failed"]

\* resolve_action_confirmation: Ok(confirmation) or Err
resolve_action_confirmation(request, read_ok, value) ==
    IF request.kind = "StartStop"
    THEN LET r == select_start_stop_action(read_ok, value)
         IN IF ~r.ok THEN [ok |-> FALSE, confirmation |-> restart_or_stop(NoUnit),
                           error |-> r.error]
            ELSE [ok |-> TRUE,
                  confirmation |-> IF r.action = "Stop"
                                   THEN restart_or_stop(request.unit)
                                   ELSE confirm_action(r.action, request.unit),
                  error |-> ""]
    ELSE LET r == select_enable_disable_action(read_ok, value)
         IN IF ~r.ok THEN [ok |-> FALSE, confirmation |-> restart_or_stop(NoUnit),
                           error |-> r.error]
            ELSE [ok |-> TRUE, confirmation |-> confirm_action(r.action, request.unit),
                  error |-> ""]

\* ================================================ Channels and worker threads
\* A worker is a thread together with the channel it sends on:
\*   pc        where the thread is ("done": returned, "dead": panicked)
\*   queue     messages sent and not yet received
\*   attached  the controller still holds the Receiver of the channel
ThreadFinished(w) == w.pc \in {"done", "dead"}

Held(ws) == \E i \in 1..Len(ws) : ws[i].attached
HeldIdx(ws) == CHOOSE i \in 1..Len(ws) : ws[i].attached
Running(ws) == { i \in 1..Len(ws) : ~ThreadFinished(ws[i]) }

\* Dropping the Receiver: the channel of a finished thread disappears, a
\* running thread keeps running with every later send failing.
DropReceiver(ws) ==
    SelectSeq([i \in 1..Len(ws) |-> [ws[i] EXCEPT !.attached = FALSE]],
              LAMBDA w : ~ThreadFinished(w))

\* `rx = Some(spawn_...(..))`: the previous Receiver, if any, is dropped.
Spawned(ws, w) == Append(DropReceiver(ws), w)

\* The worker list after thread i moved to w: a finished thread whose
\* Receiver is gone leaves nothing behind.
PutWorker(ws, i, w) ==
    IF ThreadFinished(w) /\ ~w.attached
    THEN SelectSeq([j \in 1..Len(ws) |-> IF j = i THEN [w EXCEPT !.pc = "gone"]
                                         ELSE ws[j]],
                   LAMBDA x : x.pc # "gone")
    ELSE [ws EXCEPT ![i] = w]

\* tx.send(msg): queued when the Receiver is alive, an error otherwise.
Send(w, msg) == IF w.attached THEN [w EXCEPT !.queue = Append(w.queue, msg)] ELSE w

\* ---------------------------------------------------------- message shapes
RefreshMsg(kind, rs, done, total, logs, error) ==
    [kind |-> kind, rows |-> rs, done |-> done, total |-> total, logs |-> logs,
     error |-> error]
NoLogs == [u \in {} |-> ""]
UnitsLoadedMsg(rs) == RefreshMsg("UnitsLoaded", rs, 0, 0, NoLogs, "")
LogsProgressMsg(done, total, logs) == RefreshMsg("LogsProgress", <<>>, done, total, logs, "")
FinishedMsg == RefreshMsg("Finished", <<>>, 0, 0, NoLogs, "")
ErrorMsg(e) == RefreshMsg("Error", <<>>, 0, 0, NoLogs, e)

DetailMsg(kind, unit, request_id, logs, error) ==
    [kind |-> kind, unit |-> unit, request_id |-> request_id, logs |-> logs,
     error |-> error]

ResolutionMsg(kind, unit, c, error) ==
    [kind |-> kind, unit |-> unit, confirmation |-> c, error |-> error]

ActionMsg(kind, unit, action, error) ==
    [kind |-> kind, unit |-> unit, action |-> action, error |-> error]

\* --------------------------------------- spawn_refresh_worker (workers.rs)
NewRefreshWorker(previous_rows) ==
    [pc |-> "fetch", previous_rows |-> previous_rows, rows |-> <<>>, done |-> 0,
     queue |-> <<>>, attached |-> TRUE]

\* Log lines a lookup can return for a unit ("" when nothing was found).
LogLines == {"", "m"}

BatchEnd_OffByOne(done, len) == Min(done + LOG_BATCH_SIZE + 1, len)

\* end = min(done + LOG_BATCH_SIZE, rows.len())
BatchEnd(done, len) == Min(done + LOG_BATCH_SIZE, len)

BatchUnits(w) ==
    { w.rows[i].unit : i \in (w.done + 1)..BatchEnd(w.done, Len(w.rows)) }

\* latest_log_lines_batch: Ok(one line per requested unit) or Err
BatchResults(units) ==
    { [ok |-> TRUE, logs |-> f] : f \in [units -> LogLines] }
        \cup { [ok |-> FALSE, logs |-> NoLogs] }

\* A journal that has a line for every unit.
SteadyBatchResults(units) == { [ok |-> TRUE, logs |-> [u \in units |-> "m"]] }

\* fetch_services, filter_services, build_rows, seed_logs_from_previous,
\* sort_rows, then UnitsLoaded (or Error when the list query failed).
RW_Fetch(i, res) ==
    /\ i \in 1..Len(refreshW)
    /\ refreshW[i].pc = "fetch"
    /\ \E built \in { sort_rows(
                          seed_logs_from_previous(
                              build_rows(filter_services(res.units, config)),
                              refreshW[i].previous_rows),
                          is_full_all(config)) } :
         LET w == refreshW[i]
             next == IF ~res.ok
                     THEN [Send(w, ErrorMsg("systemctl list-units failed"))
                              EXCEPT !.pc = "done", !.previous_rows = <<>>]
                     ELSE IF ~w.attached
                     THEN [w EXCEPT !.pc = "done", !.previous_rows = <<>>]
                     ELSE [Send(w, UnitsLoadedMsg(built))
                              EXCEPT !.pc = "logs", !.rows = built, !.done = 0,
                                     !.previous_rows = <<>>]
         IN /\ refreshW' = PutWorker(refreshW, i, next)
            /\ ev' = Ev("RW_Fetch", NoUnit, 0, Len(built), res.ok)
    /\ UNCHANGED <<pc, config, call, listVars, view_mode, detail, confirmation,
                   statusVars, detailW, resolutionW, actionW>>

\* One turn of the log loop: a batched lookup, then LogsProgress (or Error).
RW_Batch(i, res) ==
    /\ i \in 1..Len(refreshW)
    /\ refreshW[i].pc = "logs"
    /\ refreshW[i].done < Len(refreshW[i].rows)
    /\ LET w == refreshW[i]
           end == BatchEnd(w.done, Len(w.rows))
           next == IF ~res.ok
                   THEN [Send(w, ErrorMsg("journal batch failed")) EXCEPT !.pc = "done"]
                   ELSE IF ~w.attached
                   THEN [w EXCEPT !.pc = "done"]
                   ELSE [Send(w, LogsProgressMsg(end, Len(w.rows), res.logs))
                            EXCEPT !.done = end]
       IN /\ refreshW' = PutWorker(refreshW, i, next)
          /\ ev' = Ev("RW_Batch", NoUnit, 0, end, res.ok)
    /\ UNCHANGED <<pc, config, call, listVars, view_mode, detail, confirmation,
                   statusVars, detailW, resolutionW, actionW>>

\* The final Finished (also the `total == 0` return right after UnitsLoaded).
RW_Finish(i) ==
    /\ i \in 1..Len(refreshW)
    /\ refreshW[i].pc = "logs"
    /\ refreshW[i].done >= Len(refreshW[i].rows)
    /\ refreshW' = PutWorker(refreshW, i,
                             [Send(refreshW[i], FinishedMsg) EXCEPT !.pc = "done"])
    /\ ev' = Ev("RW_Finish", NoUnit, 0, 0, TRUE)
    /\ UNCHANGED <<pc, config, call, listVars, view_mode, detail, confirmation,
                   statusVars, detailW, resolutionW, actionW>>

\* ----------------------------------------------------- spawn_detail_worker
NewDetailWorker(unit, request_id) ==
    [pc |-> "run", unit |-> unit, request_id |-> request_id, queue |-> <<>>,
     attached |-> TRUE]

\* fetch_unit_logs: Ok(n entries) or Err
DetailFetchResults ==
    { [ok |-> TRUE, n |-> n] : n \in 0..MaxDetailLogs } \cup { [ok |-> FALSE, n |-> 0] }

DW_Fetch(i, res) ==
    /\ i \in 1..Len(detailW)
    /\ detailW[i].pc = "run"
    /\ LET w == detailW[i]
           msg == IF res.ok
                  THEN DetailMsg("DetailLogsLoaded", w.unit, w.request_id,
                                 DetailLogs(w.unit, res.n), "")
                  ELSE DetailMsg("DetailLogsError", w.unit, w.request_id, <<>>,
                                 "journalctl failed")
       IN /\ detailW' = PutWorker(detailW, i, [Send(w, msg) EXCEPT !.pc = "done"])
          /\ ev' = Ev(IF w.attached THEN "DW_Send" ELSE "DW_SendFailed",
                      w.unit, w.request_id, res.n, res.ok)
    /\ UNCHANGED <<pc, config, call, listVars, view_mode, detail, confirmation,
                   statusVars, refreshW, resolutionW, actionW>>

\* ------------------------------------------ spawn_action_resolution_worker
NewResolutionWorker(kind, unit) ==
    [pc |-> "run", request |-> [kind |-> kind, unit |-> unit], queue |-> <<>>,
     attached |-> TRUE]

PropertyValues(kind) ==
    IF kind = "StartStop" THEN ActiveStateValues ELSE UnitFileStateValues

RS_Resolve(i, read_ok, value) ==
    /\ i \in 1..Len(resolutionW)
    /\ resolutionW[i].pc = "run"
    /\ value \in PropertyValues(resolutionW[i].request.kind)
    /\ LET w == resolutionW[i]
           r == resolve_action_confirmation(w.request, read_ok, value)
           msg == IF r.ok
                  THEN ResolutionMsg("ActionConfirmationReady", w.request.unit,
                                     r.confirmation, "")
                  ELSE ResolutionMsg("ActionResolutionError", w.request.unit,
                                     r.confirmation, r.error)
       IN /\ resolutionW' = PutWorker(resolutionW, i, [Send(w, msg) EXCEPT !.pc = "done"])
          /\ ev' = Ev("RS_Resolve", w.request.unit, 0, 0, r.ok)
    /\ UNCHANGED <<pc, config, call, listVars, view_mode, detail, confirmation,
                   statusVars, refreshW, detailW, actionW>>

\* ------------------------------------------------ spawn_unit_action_worker
NewActionWorker(unit, action) ==
    [pc |-> "run", unit |-> unit, action |-> action, queue |-> <<>>,
     attached |-> TRUE]

AW_Run(i, ok) ==
    /\ i \in 1..Len(actionW)
    /\ actionW[i].pc = "run"
    /\ LET w == actionW[i]
           msg == IF ok THEN ActionMsg("UnitActionComplete", w.unit, w.action, "")
                  ELSE ActionMsg("UnitActionError", w.unit, w.action,
                                 "systemctl failed")
       IN /\ actionW' = PutWorker(actionW, i, [Send(w, msg) EXCEPT !.pc = "done"])
          /\ ev' = Ev("AW_Run", w.unit, 0, 0, ok)
    /\ UNCHANGED <<pc, config, call, listVars, view_mode, detail, confirmation,
                   statusVars, refreshW, detailW, resolutionW>>

\* ------------------------------------------------------------ thread panic
\* A worker thread that panics drops its Sender without a terminal message;
\* the controller then sees TryRecvError::Disconnected once the queue is empty.
Panicked(ws, i) == PutWorker(ws, i, [ws[i] EXCEPT !.pc = "dead"])

RefreshPanics ==
    /\ \E i \in Running(refreshW) : refreshW' = Panicked(refreshW, i)
    /\ ev' = Ev("RefreshPanics", NoUnit, 0, 0, FALSE)
    /\ UNCHANGED <<pc, config, call, listVars, view_mode, detail, confirmation, statusVars,
                   detailW, resolutionW, actionW>>

DetailPanics ==
    /\ \E i \in Running(detailW) : detailW' = Panicked(detailW, i)
    /\ ev' = Ev("DetailPanics", NoUnit, 0, 0, FALSE)
    /\ UNCHANGED <<pc, config, call, listVars, view_mode, detail, confirmation, statusVars,
                   refreshW, resolutionW, actionW>>

ResolutionPanics ==
    /\ \E i \in Running(resolutionW) : resolutionW' = Panicked(resolutionW, i)
    /\ ev' = Ev("ResolutionPanics", NoUnit, 0, 0, FALSE)
    /\ UNCHANGED <<pc, config, call, listVars, view_mode, detail, confirmation, statusVars,
                   refreshW, detailW, actionW>>

ActionPanics ==
    /\ \E i \in Running(actionW) : actionW' = Panicked(actionW, i)
    /\ ev' = Ev("ActionPanics", NoUnit, 0, 0, FALSE)
    /\ UNCHANGED <<pc, config, call, listVars, view_mode, detail, confirmation, statusVars,
                   refreshW, detailW, resolutionW>>

\* ======================================================= Controller (run loop)
\* The controller state the refresh messages act on, as one record.
ListState ==
    [rows |-> rows, row_index_by_unit |-> row_index_by_unit,
     selected_idx |-> selected_idx, loaded_once |-> loaded_once,
     last_load_error |-> last_load_error,
     last_load_error_message |-> last_load_error_message, phase |-> phase,
     status_line |-> status_line,
     status_line_overrides_stale |-> status_line_overrides_stale]

PhaseAfterUnitsLoaded_AlwaysLogs(new_rows) == "FetchingLogs"

\* `if rows.is_empty() { Idle } else { FetchingLogs }`
PhaseAfterUnitsLoaded(new_rows) ==
    IF new_rows = <<>> THEN "Idle" ELSE "FetchingLogs"

\* Ok(WorkerMsg::UnitsLoaded(new_rows))
OnUnitsLoaded(L, new_rows) ==
    [L EXCEPT !.loaded_once = TRUE,
              !.last_load_error = FALSE,
              !.last_load_error_message = None,
              !.rows = new_rows,
              !.row_index_by_unit = IndexByUnit(new_rows),
              !.selected_idx =
                  preserve_selection(SelectedUnit(L.rows, L.selected_idx),
                                     new_rows, L.selected_idx),
              !.status_line =
                  IF new_rows = <<>> THEN list_status_text(0, None)
                  ELSE list_status_text(Len(new_rows), Some(<<0, Len(new_rows)>>)),
              !.status_line_overrides_stale = FALSE,
              !.phase = PhaseAfterUnitsLoaded(new_rows)]

OnLogsProgress_ClearsMissing(L, done, total, logs) ==
    [L EXCEPT !.rows =
                  [i \in 1..Len(L.rows) |->
                      LET hit == { u \in DOMAIN logs :
                                      /\ u \in DOMAIN L.row_index_by_unit
                                      /\ L.row_index_by_unit[u] = i - 1 }
                      IN [L.rows[i] EXCEPT
                             !.last_log = IF hit = {} THEN ""
                                          ELSE logs[CHOOSE u \in hit : TRUE]]],
              !.status_line = list_status_text(Len(L.rows), Some(<<done, total>>)),
              !.status_line_overrides_stale = FALSE,
              !.phase = "FetchingLogs"]

\* Ok(WorkerMsg::LogsProgress { done, total, logs })
OnLogsProgress(L, done, total, logs) ==
    [L EXCEPT !.rows =
                  [i \in 1..Len(L.rows) |->
                      LET hit == { u \in DOMAIN logs :
                                      /\ u \in DOMAIN L.row_index_by_unit
                                      /\ L.row_index_by_unit[u] = i - 1 }
                      IN IF hit = {} THEN L.rows[i]
                         ELSE [L.rows[i] EXCEPT
                                  !.last_log = logs[CHOOSE u \in hit : TRUE]]],
              !.status_line = list_status_text(Len(L.rows), Some(<<done, total>>)),
              !.status_line_overrides_stale = FALSE,
              !.phase = "FetchingLogs"]

\* Ok(WorkerMsg::Finished)
OnFinished(L) ==
    [L EXCEPT !.phase = "Idle",
              !.status_line = list_status_text(Len(L.rows), None),
              !.status_line_overrides_stale = FALSE]

OnError_ClearsRows(L, e) ==
    [L EXCEPT !.last_load_error = TRUE,
              !.last_load_error_message = Some(e),
              !.rows = <<>>,
              !.selected_idx = 0,
              !.status_line = stale_status_text(0),
              !.status_line_overrides_stale = FALSE,
              !.phase = "Idle"]

\* Ok(WorkerMsg::Error(e))
OnError(L, e) ==
    [L EXCEPT !.last_load_error = TRUE,
              !.last_load_error_message = Some(e),
              !.status_line = stale_status_text(Len(L.rows)),
              !.status_line_overrides_stale = FALSE,
              !.phase = "Idle"]

OnDisconnected_KeepsPhase(L) == L

\* Err(TryRecvError::Disconnected)
OnDisconnected(L) == [L EXCEPT !.phase = "Idle"]

SetListState(L) ==
    /\ rows' = L.rows
    /\ row_index_by_unit' = L.row_index_by_unit
    /\ selected_idx' = L.selected_idx
    /\ loaded_once' = L.loaded_once
    /\ last_load_error' = L.last_load_error
    /\ last_load_error_message' = L.last_load_error_message
    /\ phase' = L.phase
    /\ status_line' = L.status_line
    /\ status_line_overrides_stale' = L.status_line_overrides_stale

RefreshSpawnGuard_IgnoresChannel == refresh_requested /\ phase = "Idle"

\* `refresh_requested && matches!(phase, Idle) && worker_rx.is_none()`
RefreshSpawnGuard == refresh_requested /\ phase = "Idle" /\ ~Held(refreshW)

\* Top of the loop: draw the frame, then spawn a refresh worker if due.
SpawnStep ==
    /\ pc = "spawn"
    /\ pc' = "refresh"
    /\ IF RefreshSpawnGuard
       THEN /\ phase' = "FetchingUnits"
            /\ status_line' = loading_units_status_text
            /\ status_line_overrides_stale' = FALSE
            /\ refresh_requested' = FALSE
            /\ refreshW' = Spawned(refreshW, NewRefreshWorker(rows))
            /\ ev' = Ev("SpawnRefresh", NoUnit, 0, 0, TRUE)
            /\ UNCHANGED <<loaded_once, last_load_error, last_load_error_message,
                           rows, row_index_by_unit, selected_idx>>
       ELSE /\ ev' = Ev("NoSpawn", NoUnit, 0, 0, FALSE)
            /\ UNCHANGED <<listVars, statusVars, refreshW>>
    /\ UNCHANGED <<config, call, view_mode, detail, confirmation, detailW, resolutionW,
                   actionW>>

\* One rx.try_recv() of the refresh drain loop, with the arm it selects.
RefreshRecv ==
    /\ pc = "refresh"
    /\ IF ~Held(refreshW)
       THEN /\ pc' = "detail"
            /\ ev' = Ev("RefreshNone", NoUnit, 0, 0, FALSE)
            /\ UNCHANGED <<listVars, statusVars, refreshW>>
       ELSE LET i == HeldIdx(refreshW)
                w == refreshW[i]
            IN IF w.queue # <<>>
               THEN LET msg == Head(w.queue)
                        rest == [refreshW EXCEPT ![i].queue = Tail(w.queue)]
                    IN /\ ev' = Ev(msg.kind, NoUnit, 0, msg.done, TRUE)
                       /\ UNCHANGED refresh_requested
                       /\ CASE msg.kind = "UnitsLoaded" ->
                                 /\ SetListState(OnUnitsLoaded(ListState, msg.rows))
                                 /\ refreshW' = rest
                                 /\ pc' = "refresh"
                            [] msg.kind = "LogsProgress" ->
                                 /\ SetListState(OnLogsProgress(ListState, msg.done,
                                                                msg.total, msg.logs))
                                 /\ refreshW' = rest
                                 /\ pc' = "refresh"
                            [] msg.kind = "Finished" ->
                                 /\ SetListState(OnFinished(ListState))
                                 /\ refreshW' = DropReceiver(rest)
                                 /\ pc' = "detail"
                            [] msg.kind = "Error" ->
                                 /\ SetListState(OnError(ListState, msg.error))
                                 /\ refreshW' = DropReceiver(rest)
                                 /\ pc' = "detail"
               ELSE IF ThreadFinished(w)
               THEN /\ SetListState(OnDisconnected(ListState))
                    /\ refreshW' = DropReceiver(refreshW)
                    /\ pc' = "detail"
                    /\ ev' = Ev("RefreshDisconnected", NoUnit, 0, 0, FALSE)
                    /\ UNCHANGED refresh_requested
               ELSE /\ pc' = "detail"
                    /\ ev' = Ev("RefreshEmpty", NoUnit, 0, 0, FALSE)
                    /\ UNCHANGED <<listVars, statusVars, refreshW>>
    /\ UNCHANGED <<config, call, view_mode, detail, confirmation, detailW, resolutionW,
                   actionW>>

\* One rx.try_recv() of the detail drain loop.
DetailRecv ==
    /\ pc = "detail"
    /\ pc' = "resolution"
    /\ IF ~Held(detailW)
       THEN /\ ev' = Ev("DetailNone", NoUnit, 0, 0, FALSE)
            /\ UNCHANGED <<detail, detailW>>
       ELSE LET i == HeldIdx(detailW)
                w == detailW[i]
            IN IF w.queue # <<>>
               THEN LET msg == Head(w.queue)
                        r == IF msg.kind = "DetailLogsLoaded"
                             THEN apply_loaded(detail, msg.request_id, msg.unit,
                                               msg.logs)
                             ELSE apply_error(detail, msg.request_id, msg.unit,
                                              msg.error)
                    IN /\ detail' = r.d
                       /\ detailW' = DropReceiver(
                                         [detailW EXCEPT ![i].queue = Tail(w.queue)])
                       /\ ev' = Ev(msg.kind, msg.unit, msg.request_id,
                                   Len(msg.logs), r.ret)
               ELSE IF ThreadFinished(w)
               THEN /\ detailW' = DropReceiver(detailW)
                    /\ ev' = Ev("DetailDisconnected", NoUnit, 0, 0, FALSE)
                    /\ UNCHANGED detail
               ELSE /\ ev' = Ev("DetailEmpty", NoUnit, 0, 0, FALSE)
                    /\ UNCHANGED <<detail, detailW>>
    /\ UNCHANGED <<config, call, listVars, view_mode, confirmation, statusVars, refreshW,
                   resolutionW, actionW>>

\* apply_action_resolution_msg:
\*   [confirmation, status_line, status_line_overrides_stale, ret]
apply_action_resolution_msg(c, sl, ov, rows_len, msg) ==
    IF msg.kind = "ActionConfirmationReady"
    THEN [confirmation |-> Some(msg.confirmation),
          status_line |-> list_status_text(rows_len, None),
          status_line_overrides_stale |-> FALSE, ret |-> TRUE]
    ELSE IF msg.kind = "ActionResolutionError"
    THEN [confirmation |-> c,
          status_line |-> action_resolution_error_status_text(rows_len, msg.unit,
                                                              msg.error),
          status_line_overrides_stale |-> TRUE, ret |-> TRUE]
    ELSE [confirmation |-> c, status_line |-> sl,
          status_line_overrides_stale |-> ov, ret |-> FALSE]

\* One rx.try_recv() of the action-resolution drain loop.
ResolutionRecv ==
    /\ pc = "resolution"
    /\ pc' = "action"
    /\ IF ~Held(resolutionW)
       THEN /\ ev' = Ev("ResolutionNone", NoUnit, 0, 0, FALSE)
            /\ UNCHANGED <<confirmation, statusVars, resolutionW>>
       ELSE LET i == HeldIdx(resolutionW)
                w == resolutionW[i]
            IN IF w.queue # <<>>
               THEN LET msg == Head(w.queue)
                        r == apply_action_resolution_msg(
                                 confirmation, status_line,
                                 status_line_overrides_stale, Len(rows), msg)
                    IN /\ confirmation' = r.confirmation
                       /\ status_line' = r.status_line
                       /\ status_line_overrides_stale' = r.status_line_overrides_stale
                       /\ resolutionW' = DropReceiver(
                              [resolutionW EXCEPT ![i].queue = Tail(w.queue)])
                       /\ ev' = Ev(msg.kind, msg.unit, 0, 0, r.ret)
               ELSE IF ThreadFinished(w)
               THEN /\ resolutionW' = DropReceiver(resolutionW)
                    /\ ev' = Ev("ResolutionDisconnected", NoUnit, 0, 0, FALSE)
                    /\ UNCHANGED <<confirmation, statusVars>>
               ELSE /\ ev' = Ev("ResolutionEmpty", NoUnit, 0, 0, FALSE)
                    /\ UNCHANGED <<confirmation, statusVars, resolutionW>>
    /\ UNCHANGED <<config, call, listVars, view_mode, detail, refreshW, detailW, actionW>>

apply_action_worker_msg_error_requests_refresh(rr, sl, ov, rows_len, msg) ==
    IF msg.kind = "UnitActionComplete"
    THEN [refresh_requested |-> TRUE,
          status_line |-> action_complete_status_text(rows_len, msg.action, msg.unit),
          status_line_overrides_stale |-> TRUE, ret |-> TRUE]
    ELSE IF msg.kind = "UnitActionError"
    THEN [refresh_requested |-> TRUE,
          status_line |-> action_error_status_text(rows_len, msg.action, msg.unit,
                                                   msg.error),
          status_line_overrides_stale |-> TRUE, ret |-> TRUE]
    ELSE [refresh_requested |-> rr, status_line |-> sl,
          status_line_overrides_stale |-> ov, ret |-> FALSE]

apply_action_worker_msg_forgets_refresh(rr, sl, ov, rows_len, msg) ==
    IF msg.kind = "UnitActionComplete"
    THEN [refresh_requested |-> rr,
          status_line |-> action_complete_status_text(rows_len, msg.action, msg.unit),
          status_line_overrides_stale |-> TRUE, ret |-> TRUE]
    ELSE IF msg.kind = "UnitActionError"
    THEN [refresh_requested |-> rr,
          status_line |-> action_error_status_text(rows_len, msg.action, msg.unit,
                                                   msg.error),
          status_line_overrides_stale |-> TRUE, ret |-> TRUE]
    ELSE [refresh_requested |-> rr, status_line |-> sl,
          status_line_overrides_stale |-> ov, ret |-> FALSE]

\* apply_action_worker_msg:
\*   [refresh_requested, status_line, status_line_overrides_stale, ret]
apply_action_worker_msg(rr, sl, ov, rows_len, msg) ==
    IF msg.kind = "UnitActionComplete"
    THEN [refresh_requested |-> TRUE,
          status_line |-> action_complete_status_text(rows_len, msg.action, msg.unit),
          status_line_overrides_stale |-> TRUE, ret |-> TRUE]
    ELSE IF msg.kind = "UnitActionError"
    THEN [refresh_requested |-> rr,
          status_line |-> action_error_status_text(rows_len, msg.action, msg.unit,
                                                   msg.error),
          status_line_overrides_stale |-> TRUE, ret |-> TRUE]
    ELSE [refresh_requested |-> rr, status_line |-> sl,
          status_line_overrides_stale |-> ov, ret |-> FALSE]

\* One rx.try_recv() of the action drain loop.
ActionRecv ==
    /\ pc = "action"
    /\ pc' = "input"
    /\ IF ~Held(actionW)
       THEN /\ ev' = Ev("ActionNone", NoUnit, 0, 0, FALSE)
            /\ UNCHANGED <<refresh_requested, statusVars, actionW>>
       ELSE LET i == HeldIdx(actionW)
                w == actionW[i]
            IN IF w.queue # <<>>
               THEN LET msg == Head(w.queue)
                        r == apply_action_worker_msg(
                                 refresh_requested, status_line,
                                 status_line_overrides_stale, Len(rows), msg)
                    IN /\ refresh_requested' = r.refresh_requested
                       /\ status_line' = r.status_line
                       /\ status_line_overrides_stale' = r.status_line_overrides_stale
                       /\ actionW' = DropReceiver(
                              [actionW EXCEPT ![i].queue = Tail(w.queue)])
                       /\ ev' = Ev(msg.kind, msg.unit, 0, 0, r.ret)
               ELSE IF ThreadFinished(w)
               THEN /\ actionW' = DropReceiver(actionW)
                    /\ ev' = Ev("ActionDisconnected", NoUnit, 0, 0, FALSE)
                    /\ UNCHANGED <<refresh_requested, statusVars>>
               ELSE /\ ev' = Ev("ActionEmpty", NoUnit, 0, 0, FALSE)
                    /\ UNCHANGED <<refresh_requested, statusVars, actionW>>
    /\ UNCHANGED <<config, call, phase, loaded_once, last_load_error,
                   last_load_error_message, rows, row_index_by_unit, selected_idx,
                   view_mode, detail, confirmation, refreshW, detailW, resolutionW>>

\* ------------------------------------------------------ keys (tui/input.rs)
\* "x" stands for every key without a binding.
Keys == {"q", "r", "Down", "Up", "l", "Enter", "s", "e", "Esc", "b", "y", "n", "x"}

\* map_key: the command, or "None"
map_key(mode, key) ==
    IF mode = "List"
    THEN CASE key = "q" -> "Quit"
           [] key = "r" -> "Refresh"
           [] key = "Down" -> "MoveDown"
           [] key = "Up" -> "MoveUp"
           [] key \in {"l", "Enter"} -> "OpenDetail"
           [] key = "s" -> "RequestStartStop"
           [] key = "e" -> "RequestEnableDisable"
           [] OTHER -> "None"
    ELSE CASE key = "q" -> "Quit"
           [] key = "r" -> "Refresh"
           [] key = "Down" -> "MoveDown"
           [] key = "Up" -> "MoveUp"
           [] key \in {"Esc", "b"} -> "BackToList"
           [] key = "l" -> "RefreshDetail"
           [] OTHER -> "None"

\* map_confirmation_key: the command, or "None"
map_confirmation_key(kind, key) ==
    IF kind = "ConfirmAction"
    THEN CASE key \in {"y", "Enter"} -> "Confirm"
           [] key \in {"n", "Esc"} -> "Cancel"
           [] OTHER -> "None"
    ELSE CASE key = "r" -> "ChooseRestart"
           [] key = "s" -> "ChooseStop"
           [] key = "Esc" -> "Cancel"
           [] OTHER -> "None"

Pending == CHOOSE c \in confirmation : TRUE

Dispatch_FallsThrough(key) ==
    IF confirmation # None /\ map_confirmation_key(Pending.kind, key) # "None"
    THEN map_confirmation_key(Pending.kind, key)
    ELSE map_key(view_mode, key)

\* The command the key dispatch of the loop executes for a key press:
\* the confirmation mapping while a prompt is pending, map_key otherwise.
Dispatch(key) ==
    IF confirmation # None /\ map_confirmation_key(Pending.kind, key) # "None"
    THEN map_confirmation_key(Pending.kind, key)
    ELSE IF confirmation = None THEN map_key(view_mode, key)
    ELSE "None"

\* ------------------------------------------------------- command handlers
CmdDone(op, unit, request_id, ok) ==
    /\ pc' = "spawn"
    /\ ev' = Ev(op, unit, request_id, 0, ok)

\* event::poll timed out, or the event was not a key press, or the key has
\* no binding in the current mode.
NoCommand ==
    /\ CmdDone("NoCommand", NoUnit, 0, FALSE)
    /\ UNCHANGED <<config, call, listVars, view_mode, detail, confirmation, statusVars,
                   workerVars>>

\* UiCommand::Quit => break: run() returns and the process exits.
CmdQuit ==
    /\ pc' = "quit"
    /\ ev' = Ev("Quit", NoUnit, 0, 0, TRUE)
    /\ refreshW' = <<>> /\ detailW' = <<>> /\ resolutionW' = <<>> /\ actionW' = <<>>
    /\ UNCHANGED <<config, call, listVars, view_mode, detail, confirmation, statusVars>>

\* The guard of a detail refresh, shared by Refresh and RefreshDetail:
\* `detail_worker_rx.is_none() && !detail.loading && detail.refresh().is_some()`
DetailRefreshDue == ~Held(detailW) /\ ~detail.loading /\ refresh(detail).ret # None

\* UiCommand::Refresh
CmdRefresh ==
    /\ refresh_requested' = TRUE
    /\ IF view_mode = "Detail" /\ DetailRefreshDue
       THEN /\ detail.next_request_id < MaxRequestId
            /\ detail' = refresh(detail).d
            /\ detailW' = Spawned(detailW,
                                  NewDetailWorker(detail'.unit, detail'.next_request_id))
            /\ CmdDone("Refresh", detail.unit, detail'.next_request_id, TRUE)
       ELSE /\ UNCHANGED <<detail, detailW>>
            /\ CmdDone("Refresh", NoUnit, 0, FALSE)
    /\ UNCHANGED <<config, call, phase, loaded_once, last_load_error,
                   last_load_error_message, rows, row_index_by_unit, selected_idx,
                   view_mode, confirmation, statusVars, refreshW, resolutionW,
                   actionW>>

CmdMoveDown_Unclamped ==
    /\ IF view_mode = "List"
       THEN /\ selected_idx' = IF rows # <<>>
                               THEN selected_idx + 1
                               ELSE selected_idx
            /\ UNCHANGED detail
       ELSE /\ detail' = IF detail.logs # <<>>
                         THEN [detail EXCEPT
                                  !.scroll = Min(detail.scroll + 1,
                                                 Len(detail.logs) - 1)]
                         ELSE detail
            /\ UNCHANGED selected_idx
    /\ CmdDone("MoveDown", NoUnit, 0, TRUE)
    /\ UNCHANGED <<config, call, refresh_requested, phase, loaded_once, last_load_error,
                   last_load_error_message, rows, row_index_by_unit, view_mode,
                   confirmation, statusVars, workerVars>>

\* UiCommand::MoveDown
CmdMoveDown ==
    /\ IF view_mode = "List"
       THEN /\ selected_idx' = IF rows # <<>>
                               THEN Min(selected_idx + 1, Len(rows) - 1)
                               ELSE selected_idx
            /\ UNCHANGED detail
       ELSE /\ detail' = IF detail.logs # <<>>
                         THEN [detail EXCEPT
                                  !.scroll = Min(detail.scroll + 1,
                                                 Len(detail.logs) - 1)]
                         ELSE detail
            /\ UNCHANGED selected_idx
    /\ CmdDone("MoveDown", NoUnit, 0, TRUE)
    /\ UNCHANGED <<config, call, refresh_requested, phase, loaded_once, last_load_error,
                   last_load_error_message, rows, row_index_by_unit, view_mode,
                   confirmation, statusVars, workerVars>>

\* UiCommand::MoveUp
CmdMoveUp ==
    /\ IF view_mode = "List"
       THEN /\ selected_idx' = saturating_sub_1(selected_idx)
            /\ UNCHANGED detail
       ELSE /\ detail' = [detail EXCEPT !.scroll = saturating_sub_1(detail.scroll)]
            /\ UNCHANGED selected_idx
    /\ CmdDone("MoveUp", NoUnit, 0, TRUE)
    /\ UNCHANGED <<config, call, refresh_requested, phase, loaded_once, last_load_error,
                   last_load_error_message, rows, row_index_by_unit, view_mode,
                   confirmation, statusVars, workerVars>>

CmdOpenDetail_KeepsHeldChannel ==
    /\ IF SelectedUnit(rows, selected_idx) # None
       THEN /\ detail.next_request_id < MaxRequestId
            /\ detail' = begin_for_unit(detail, rows[selected_idx + 1].unit)
            /\ detailW' = IF Held(detailW) THEN detailW
                          ELSE Spawned(detailW,
                                  NewDetailWorker(detail'.unit, detail'.next_request_id))
            /\ view_mode' = "Detail"
            /\ CmdDone("OpenDetail", detail'.unit, detail'.next_request_id, TRUE)
       ELSE /\ UNCHANGED <<detail, detailW, view_mode>>
            /\ CmdDone("OpenDetail", NoUnit, 0, FALSE)
    /\ UNCHANGED <<config, call, listVars, confirmation, statusVars, refreshW,
                   resolutionW, actionW>>

\* UiCommand::OpenDetail
CmdOpenDetail ==
    /\ IF SelectedUnit(rows, selected_idx) # None
       THEN /\ detail.next_request_id < MaxRequestId
            /\ detail' = begin_for_unit(detail, rows[selected_idx + 1].unit)
            /\ detailW' = Spawned(detailW,
                                  NewDetailWorker(detail'.unit, detail'.next_request_id))
            /\ view_mode' = "Detail"
            /\ CmdDone("OpenDetail", detail'.unit, detail'.next_request_id, TRUE)
       ELSE /\ UNCHANGED <<detail, detailW, view_mode>>
            /\ CmdDone("OpenDetail", NoUnit, 0, FALSE)
    /\ UNCHANGED <<config, call, listVars, confirmation, statusVars, refreshW,
                   resolutionW, actionW>>

\* UiCommand::BackToList
CmdBackToList ==
    /\ view_mode' = "List"
    /\ CmdDone("BackToList", NoUnit, 0, TRUE)
    /\ UNCHANGED <<config, call, listVars, detail, confirmation, statusVars, workerVars>>

CmdRefreshDetail_Unguarded ==
    /\ IF refresh(detail).ret # None
       THEN /\ detail.next_request_id < MaxRequestId
            /\ detail' = refresh(detail).d
            /\ detailW' = Spawned(detailW,
                                  NewDetailWorker(detail'.unit, detail'.next_request_id))
            /\ CmdDone("RefreshDetail", detail.unit, detail'.next_request_id, TRUE)
       ELSE /\ UNCHANGED <<detail, detailW>>
            /\ CmdDone("RefreshDetail", NoUnit, 0, FALSE)
    /\ UNCHANGED <<config, call, listVars, view_mode, confirmation, statusVars, refreshW,
                   resolutionW, actionW>>

\* UiCommand::RefreshDetail
CmdRefreshDetail ==
    /\ IF DetailRefreshDue
       THEN /\ detail.next_request_id < MaxRequestId
            /\ detail' = refresh(detail).d
            /\ detailW' = Spawned(detailW,
                                  NewDetailWorker(detail'.unit, detail'.next_request_id))
            /\ CmdDone("RefreshDetail", detail.unit, detail'.next_request_id, TRUE)
       ELSE /\ UNCHANGED <<detail, detailW>>
            /\ CmdDone("RefreshDetail", NoUnit, 0, FALSE)
    /\ UNCHANGED <<config, call, listVars, view_mode, confirmation, statusVars, refreshW,
                   resolutionW, actionW>>

ActionRequestGuard_IgnoresActionWorker ==
    ~Held(resolutionW) /\ SelectedUnit(rows, selected_idx) # None

\* `action_worker_rx.is_none() && action_resolution_worker_rx.is_none()
\*  && let Some(row) = rows.get(selected_idx)`
ActionRequestGuard ==
    ~Held(actionW) /\ ~Held(resolutionW) /\ SelectedUnit(rows, selected_idx) # None

\* UiCommand::RequestStartStop / UiCommand::RequestEnableDisable
CmdRequest(op, kind) ==
    /\ IF ActionRequestGuard
       THEN /\ status_line' = action_resolution_status_text(
                                  Len(rows), rows[selected_idx + 1].unit)
            /\ status_line_overrides_stale' = TRUE
            /\ resolutionW' = Spawned(resolutionW,
                                  NewResolutionWorker(kind, rows[selected_idx + 1].unit))
            /\ CmdDone(op, rows[selected_idx + 1].unit, 0, TRUE)
       ELSE /\ UNCHANGED <<statusVars, resolutionW>>
            /\ CmdDone(op, NoUnit, 0, FALSE)
    /\ UNCHANGED <<config, call, listVars, view_mode, detail, confirmation, refreshW,
                   detailW, actionW>>

\* The shared body of Confirm, ChooseRestart and ChooseStop once the action
\* is known: status text, then spawn_unit_action_worker.
StartAction(op, unit, action) ==
    /\ confirmation' = None
    /\ status_line' = action_status_text(Len(rows), action, unit)
    /\ status_line_overrides_stale' = TRUE
    /\ actionW' = Spawned(actionW, NewActionWorker(unit, action))
    /\ CmdDone(op, unit, 0, TRUE)

\* UiCommand::Confirm
CmdConfirm ==
    /\ IF ~Held(actionW) /\ confirmation # None
       THEN IF confirmed_action(Pending) # None
            THEN StartAction("Confirm", Pending.unit,
                             CHOOSE a \in confirmed_action(Pending) : TRUE)
            ELSE /\ confirmation' = None
                 /\ UNCHANGED <<statusVars, actionW>>
                 /\ CmdDone("Confirm", NoUnit, 0, FALSE)
       ELSE /\ UNCHANGED <<confirmation, statusVars, actionW>>
            /\ CmdDone("Confirm", NoUnit, 0, FALSE)
    /\ UNCHANGED <<config, call, listVars, view_mode, detail, refreshW, detailW,
                   resolutionW>>

CmdChoose_SelectedUnit(op, action) ==
    /\ IF ~Held(actionW) /\ confirmation # None
       THEN StartAction(op, IF selected_idx < Len(rows)
                            THEN rows[selected_idx + 1].unit ELSE Pending.unit,
                        action)
       ELSE /\ UNCHANGED <<confirmation, statusVars, actionW>>
            /\ CmdDone(op, NoUnit, 0, FALSE)
    /\ UNCHANGED <<config, call, listVars, view_mode, detail, refreshW, detailW,
                   resolutionW>>

\* UiCommand::ChooseRestart / UiCommand::ChooseStop
CmdChoose(op, action) ==
    /\ IF ~Held(actionW) /\ confirmation # None
       THEN StartAction(op, Pending.unit, action)
       ELSE /\ UNCHANGED <<confirmation, statusVars, actionW>>
            /\ CmdDone(op, NoUnit, 0, FALSE)
    /\ UNCHANGED <<config, call, listVars, view_mode, detail, refreshW, detailW,
                   resolutionW>>

CmdCancel_KeepsPrompt ==
    /\ status_line' = list_status_text(Len(rows), None)
    /\ status_line_overrides_stale' = FALSE
    /\ CmdDone("Cancel", NoUnit, 0, TRUE)
    /\ UNCHANGED <<config, call, listVars, view_mode, detail, confirmation, workerVars>>

\* UiCommand::Cancel
CmdCancel ==
    /\ confirmation' = None
    /\ status_line' = list_status_text(Len(rows), None)
    /\ status_line_overrides_stale' = FALSE
    /\ CmdDone("Cancel", NoUnit, 0, TRUE)
    /\ UNCHANGED <<config, call, listVars, view_mode, detail, workerVars>>

\* A key press reaches the dispatch at the bottom of the loop and is
\* executed as the command `cmd`.
Press(cmd) == pc = "input" /\ \E key \in Keys : Dispatch(key) = cmd

\* event::poll(50ms) returned false, or the key has no binding.
PollTimeout == pc = "input" /\ NoCommand
PressQuit == Press("Quit") /\ CmdQuit
PressRefresh == Press("Refresh") /\ CmdRefresh
PressMoveDown == Press("MoveDown") /\ CmdMoveDown
PressMoveUp == Press("MoveUp") /\ CmdMoveUp
PressOpenDetail == Press("OpenDetail") /\ CmdOpenDetail
PressBackToList == Press("BackToList") /\ CmdBackToList
PressRefreshDetail == Press("RefreshDetail") /\ CmdRefreshDetail
PressRequestStartStop ==
    Press("RequestStartStop") /\ CmdRequest("RequestStartStop", "StartStop")
PressRequestEnableDisable ==
    Press("RequestEnableDisable") /\ CmdRequest("RequestEnableDisable", "EnableDisable")
PressConfirm == Press("Confirm") /\ CmdConfirm
PressChooseRestart == Press("ChooseRestart") /\ CmdChoose("ChooseRestart", "Restart")
PressChooseStop == Press("ChooseStop") /\ CmdChoose("ChooseStop", "Stop")
PressCancel == Press("Cancel") /\ CmdCancel

\* ======================================================= Journal (journal.rs)
BATCH_MIN_LINES == 200
BATCH_PER_UNIT_LINES == 20
BATCH_MAX_LINES == 4000
BATCH_MAX_ATTEMPTS == 3

Max(a, b) == IF a > b THEN a ELSE b

\* usize::saturating_mul; the saturation point 2^64-1 lies beyond every
\* product the bounds of the model can form.
saturating_mul(a, b) == a * b

batch_line_budget_uncapped(unit_count, attempt) ==
    LET base == Max(BATCH_MIN_LINES,
                    saturating_mul(unit_count, BATCH_PER_UNIT_LINES))
        growth == 2 ^ Min(attempt, 10)
    IN saturating_mul(base, growth)

\* batch_line_budget: `1usize << attempt.min(10)` is 2^min(attempt, 10)
batch_line_budget(unit_count, attempt) ==
    LET base == Max(BATCH_MIN_LINES,
                    saturating_mul(unit_count, BATCH_PER_UNIT_LINES))
        growth == 2 ^ Min(attempt, 10)
    IN Min(saturating_mul(base, growth), BATCH_MAX_LINES)

\* ---- journal records
\* One line of `journalctl -o json` output:
\*   json     the line parses as JSON
\*   fields   the unit-naming fields present as strings, with their values
\*   message  the MESSAGE field ("" when absent or not a string)
JournalLine(json, fields, message) ==
    [json |-> json, fields |-> fields, message |-> message]

NoFields == [f \in {} |-> NoUnit]
GarbageLine == JournalLine(FALSE, NoFields, "")
UnitLine(unit, message) ==
    JournalLine(TRUE, [f \in {"_SYSTEMD_UNIT"} |-> unit], message)
AnonymousLine(message) == JournalLine(TRUE, NoFields, message)

\* The MESSAGE texts of the model and what str::trim makes of them.
Messages == {"", " ", "a", " b "}
Trim(m) == CASE m = " " -> ""
             [] m = " b " -> "b"
             [] OTHER -> m

SYSTEM_UNIT_FIELDS ==
    <<"_SYSTEMD_UNIT", "UNIT", "USER_UNIT", "OBJECT_SYSTEMD_UNIT",
      "COREDUMP_UNIT", "COREDUMP_USER_UNIT", "_SYSTEMD_USER_UNIT">>
USER_UNIT_FIELDS ==
    <<"_SYSTEMD_USER_UNIT", "USER_UNIT", "UNIT", "OBJECT_SYSTEMD_USER_UNIT",
      "OBJECT_SYSTEMD_UNIT", "COREDUMP_USER_UNIT", "COREDUMP_UNIT",
      "_SYSTEMD_UNIT">>

unit_from_journal_entry_any_scope(scope, value) ==
    LET fields == SYSTEM_UNIT_FIELDS
        present == { i \in 1..Len(fields) : fields[i] \in DOMAIN value.fields }
    IN IF present = {} THEN None
       ELSE Some(value.fields[fields[CHOOSE i \in present :
                                         \A j \in present : i <= j]])

\* unit_from_journal_entry_for_scope: the first field of the scope's list
\* that the record has, as an Option
unit_from_journal_entry_for_scope(scope, value) ==
    LET fields == IF scope = "System" THEN SYSTEM_UNIT_FIELDS ELSE USER_UNIT_FIELDS
        present == { i \in 1..Len(fields) : fields[i] \in DOMAIN value.fields }
    IN IF present = {} THEN None
       ELSE Some(value.fields[fields[CHOOSE i \in present :
                                         \A j \in present : i <= j]])

\* A HashMap<String, String> is a function from its keys.
EmptyMap == [u \in {} |-> ""]
Insert(m, k, v) == [x \in DOMAIN m \cup {k} |-> IF x = k THEN v ELSE m[x]]

absorb_latest_log_line_last_wins(scope, line, wanted, latest) ==
    IF ~line.json THEN latest
    ELSE LET unit == unit_from_journal_entry_for_scope(scope, line)
         IN IF unit = None THEN latest
            ELSE LET u == CHOOSE x \in unit : TRUE
                 IN IF u \notin wanted THEN latest
                    ELSE IF Trim(line.message) = "" THEN latest
                    ELSE Insert(latest, u, Trim(line.message))

\* absorb_latest_log_line: `latest` after the line
absorb_latest_log_line(scope, line, wanted, latest) ==
    IF ~line.json THEN latest
    ELSE LET unit == unit_from_journal_entry_for_scope(scope, line)
         IN IF unit = None THEN latest
            ELSE LET u == CHOOSE x \in unit : TRUE
                 IN IF u \notin wanted \/ u \in DOMAIN latest THEN latest
                    ELSE IF Trim(line.message) = "" THEN latest
                    ELSE Insert(latest, u, Trim(line.message))

\* ---- stream_batch_latest_logs: one journalctl child and its receive loop
\*   pc          "recv" in the loop, "done" returned
\*   lines       what the child still has to print
\*   read        the lines received so far
\*   child       "running", "exited" (reaped by wait) or "killed"
\*   ret         the Result returned
Seq2Set(s) == { s[i] : i \in 1..Len(s) }

NoStream == [pc |-> "none"]

NewStream(scope, unit_names, line_budget, lines) ==
    [pc |-> "recv", scope |-> scope, unit_names |-> unit_names,
     wanted |-> Seq2Set(unit_names), line_budget |-> line_budget,
     lines |-> lines, read |-> <<>>, found |-> EmptyMap, seen_lines |-> 0,
     child |-> "running", ret |-> [ok |-> FALSE, found |-> EmptyMap, error |-> ""]]

\* resolve_trusted_binary or spawn failed: no child, Err at once
FailedStream(scope, unit_names, line_budget) ==
    [NewStream(scope, unit_names, line_budget, <<>>) EXCEPT
        !.pc = "done", !.child = "none",
        !.ret = [ok |-> FALSE, found |-> EmptyMap, error |-> "spawn failed"]]

\* `while seen_lines < line_budget && found.len() < wanted.len()`
StreamLoopCondition_IgnoresBudget(s) ==
    Cardinality(DOMAIN s.found) < Cardinality(s.wanted)

StreamLoopCondition(s) ==
    /\ s.seen_lines < s.line_budget
    /\ Cardinality(DOMAIN s.found) < Cardinality(s.wanted)

StreamTimedOut(s) ==
    [s EXCEPT !.pc = "done", !.child = "killed",
              !.ret = [ok |-> FALSE, found |-> EmptyMap,
                       error |-> "journalctl batch query timed out"]]

\* Ok(line): absorb it and count it
StreamRecvLine(s) ==
    [s EXCEPT !.found = absorb_latest_log_line(s.scope, Head(s.lines), s.wanted,
                                               s.found),
              !.seen_lines = s.seen_lines + 1,
              !.lines = Tail(s.lines),
              !.read = Append(s.read, Head(s.lines))]

\* What the child does once the loop has ended without every unit found.
ChildOutcomes == {"exit_ok", "exit_failure", "stderr_failed", "timeout"}

\* wait_child_with_timeout, then the look at stderr
StreamWaitChild(s, outcome) ==
    CASE outcome = "exit_ok" ->
             [s EXCEPT !.pc = "done", !.child = "exited",
                       !.ret = [ok |-> TRUE, found |-> s.found, error |-> ""]]
      [] outcome = "exit_failure" ->
             [s EXCEPT !.pc = "done", !.child = "exited",
                       !.ret = [ok |-> FALSE, found |-> EmptyMap,
                                error |-> "journalctl exited unsuccessfully"]]
      [] outcome = "stderr_failed" ->
             [s EXCEPT !.pc = "done", !.child = "exited",
                       !.ret = [ok |-> FALSE, found |-> EmptyMap,
                                error |-> "journalctl batch query failed"]]
      [] outcome = "timeout" -> StreamTimedOut(s)

StreamAfterLoop_NeverKills(s, outcome) == StreamWaitChild(s, outcome)

\* After the loop: kill when every wanted unit was found, else wait for the
\* child and look at its exit status and stderr.
StreamAfterLoop(s, outcome) ==
    IF Cardinality(DOMAIN s.found) = Cardinality(s.wanted)
    THEN [s EXCEPT !.pc = "done", !.child = "killed",
                   !.ret = [ok |-> TRUE, found |-> s.found, error |-> ""]]
    ELSE StreamWaitChild(s, outcome)

\* One recv_timeout of the loop that yields a line.
JS_Recv ==
    /\ call.fn \in {"stream_batch_latest_logs", "latest_log_lines_batch"}
    /\ call.s.pc = "recv"
    /\ StreamLoopCondition(call.s)
    /\ call.s.lines # <<>>
    /\ call' = [call EXCEPT !.s = StreamRecvLine(call.s)]
    /\ ev' = Ev("JS_Recv", NoUnit, 0, call.s.seen_lines + 1, TRUE)
    /\ UNCHANGED <<pc, config, listVars, view_mode, detail, confirmation,
                   statusVars, workerVars>>

\* The deadline passes while the loop waits for a line.
JS_Timeout ==
    /\ call.fn \in {"stream_batch_latest_logs", "latest_log_lines_batch"}
    /\ call.s.pc = "recv"
    /\ StreamLoopCondition(call.s)
    /\ call' = [call EXCEPT !.s = StreamTimedOut(call.s)]
    /\ ev' = Ev("JS_Timeout", NoUnit, 0, call.s.seen_lines, FALSE)
    /\ UNCHANGED <<pc, config, listVars, view_mode, detail, confirmation,
                   statusVars, workerVars>>

\* The loop ends (condition false, or Disconnected because the child has
\* closed its stdout) and the function returns.
JS_Finish(outcome) ==
    /\ call.fn \in {"stream_batch_latest_logs", "latest_log_lines_batch"}
    /\ call.s.pc = "recv"
    /\ ~StreamLoopCondition(call.s) \/ call.s.lines = <<>>
    /\ call' = [call EXCEPT !.s = StreamAfterLoop(call.s, outcome)]
    /\ ev' = Ev("JS_Finish", NoUnit, 0, call.s.seen_lines,
                StreamAfterLoop(call.s, outcome).ret.ok)
    /\ UNCHANGED <<pc, config, listVars, view_mode, detail, confirmation,
                   statusVars, workerVars>>

\* ---- last_log_line: Ok(first line, trimmed) or Err
LastLogLineResults ==
    { [ok |-> TRUE, line |-> Trim(m)] : m \in Messages } \cup { [ok |-> FALSE, line |-> ""] }

\* Result::unwrap_or_default
unwrap_or_default(r) == IF r.ok THEN r.line ELSE ""

\* ---- latest_log_lines_batch
\*   pc          "attempt" at the head of the attempt loop, "stream" inside
\*               stream_batch_latest_logs, "fallback" in the fallback loop,
\*               "done" returned
\*   attempts    one record per streaming attempt made
\*   fallbacks   the units last_log_line was asked about, in order, and
\*               whether the query succeeded
NewBatch(scope, unit_names) ==
    [fn |-> "latest_log_lines_batch", scope |-> scope, unit_names |-> unit_names,
     pc |-> IF unit_names = <<>> THEN "done" ELSE "attempt",
     out |-> EmptyMap, unresolved |-> unit_names, attempt |-> 0, i |-> 1,
     attempts |-> <<>>, fallbacks |-> <<>>, s |-> NoStream,
     ret |-> [ok |-> unit_names = <<>>, logs |-> EmptyMap]]

\* `for (unit, message) in partial { if !message.trim().is_empty() { out.insert } }`
MergePartial(out, partial) ==
    [u \in DOMAIN out \cup { x \in DOMAIN partial : Trim(partial[x]) # "" } |->
        IF u \in DOMAIN partial /\ Trim(partial[u]) # "" THEN partial[u] ELSE out[u]]

Retain_KeepsAll(unresolved, out) == unresolved

\* unresolved.retain(|unit| !out.contains_key(unit))
Retain(unresolved, out) == SelectSeq(unresolved, LAMBDA u : u \notin DOMAIN out)

\* Head of `for attempt in 0..BATCH_MAX_ATTEMPTS` when the loop goes on:
\* compute the budget and start the journalctl child (`lines` is what it
\* will print, at most `budget` lines; spawn_ok = FALSE when the binary
\* cannot be resolved or spawned).
JB_Attempt(spawn_ok, lines) ==
    /\ call.fn = "latest_log_lines_batch"
    /\ call.pc = "attempt"
    /\ call.attempt < BATCH_MAX_ATTEMPTS /\ call.unresolved # <<>>
    /\ LET budget == batch_line_budget(Len(call.unresolved), call.attempt)
       IN /\ Len(lines) <= budget
          /\ call' = [call EXCEPT
                !.pc = "stream",
                !.s = IF spawn_ok
                      THEN NewStream(call.scope, call.unresolved, budget, lines)
                      ELSE FailedStream(call.scope, call.unresolved, budget)]
          /\ ev' = Ev("JB_Attempt", NoUnit, 0, budget, spawn_ok)
    /\ UNCHANGED <<pc, config, listVars, view_mode, detail, confirmation,
                   statusVars, workerVars>>

\* Head of the attempt loop when it ends: all attempts made, or nothing left.
JB_LoopEnd ==
    /\ call.fn = "latest_log_lines_batch"
    /\ call.pc = "attempt"
    /\ ~(call.attempt < BATCH_MAX_ATTEMPTS /\ call.unresolved # <<>>)
    /\ call' = [call EXCEPT !.pc = "fallback", !.i = 1]
    /\ ev' = Ev("JB_LoopEnd", NoUnit, 0, call.attempt, TRUE)
    /\ UNCHANGED <<pc, config, listVars, view_mode, detail, confirmation,
                   statusVars, workerVars>>

JB_Merge_RetriesAfterError ==
    /\ call.fn = "latest_log_lines_batch"
    /\ call.pc = "stream"
    /\ call.s.pc = "done"
    /\ LET s == call.s
           record == [units |-> s.unit_names, budget |-> s.line_budget,
                      ok |-> s.ret.ok, found |-> DOMAIN s.ret.found,
                      killed |-> s.child = "killed"]
           out == MergePartial(call.out, s.ret.found)
       IN /\ call' =
               IF ~s.ret.ok
               THEN [call EXCEPT !.pc = "attempt", !.s = NoStream,
                                 !.attempt = call.attempt + 1,
                                 !.attempts = Append(call.attempts, record)]
               ELSE [call EXCEPT !.pc = "attempt", !.s = NoStream,
                                 !.out = out,
                                 !.unresolved = Retain(call.unresolved, out),
                                 !.attempt = call.attempt + 1,
                                 !.attempts = Append(call.attempts, record)]
          /\ ev' = Ev("JB_Merge", NoUnit, 0, Cardinality(DOMAIN s.ret.found), s.ret.ok)
    /\ UNCHANGED <<pc, config, listVars, view_mode, detail, confirmation,
                   statusVars, workerVars>>

\* stream_batch_latest_logs has returned: `Err(_) => break`, else merge the
\* partial result and retain the units still missing.
JB_Merge ==
    /\ call.fn = "latest_log_lines_batch"
    /\ call.pc = "stream"
    /\ call.s.pc = "done"
    /\ LET s == call.s
           record == [units |-> s.unit_names, budget |-> s.line_budget,
                      ok |-> s.ret.ok, found |-> DOMAIN s.ret.found,
                      killed |-> s.child = "killed"]
           out == MergePartial(call.out, s.ret.found)
       IN /\ call' =
               IF ~s.ret.ok
               THEN [call EXCEPT !.pc = "fallback", !.i = 1, !.s = NoStream,
                                 !.attempts = Append(call.attempts, record)]
               ELSE [call EXCEPT !.pc = "attempt", !.s = NoStream,
                                 !.out = out,
                                 !.unresolved = Retain(call.unresolved, out),
                                 !.attempt = call.attempt + 1,
                                 !.attempts = Append(call.attempts, record)]
          /\ ev' = Ev("JB_Merge", NoUnit, 0, Cardinality(DOMAIN s.ret.found), s.ret.ok)
    /\ UNCHANGED <<pc, config, listVars, view_mode, detail, confirmation,
                   statusVars, workerVars>>

\* `out.insert(unit, last_log_line(..).unwrap_or_default())`
FallbackInsert_FailsBatch(c, unit, res) ==
    IF res.ok
    THEN [c EXCEPT !.out = Insert(c.out, unit, unwrap_or_default(res)),
                   !.fallbacks = Append(c.fallbacks, [unit |-> unit, ok |-> res.ok]),
                   !.i = c.i + 1]
    ELSE [c EXCEPT !.pc = "done",
                   !.fallbacks = Append(c.fallbacks, [unit |-> unit, ok |-> res.ok]),
                   !.ret = [ok |-> FALSE, logs |-> EmptyMap]]

FallbackInsert(c, unit, res) ==
    [c EXCEPT !.out = Insert(c.out, unit, unwrap_or_default(res)),
              !.fallbacks = Append(c.fallbacks, [unit |-> unit, ok |-> res.ok]),
              !.i = c.i + 1]

\* One turn of `for unit in unresolved`.
JB_Fallback(res) ==
    /\ call.fn = "latest_log_lines_batch"
    /\ call.pc = "fallback"
    /\ call.i <= Len(call.unresolved)
    /\ LET unit == call.unresolved[call.i]
       IN IF unit \notin DOMAIN call.out \/ Trim(call.out[unit]) = ""
          THEN /\ call' = FallbackInsert(call, unit, res)
               /\ ev' = Ev("JB_Fallback", unit, 0, call.i, res.ok)
          ELSE /\ call' = [call EXCEPT !.i = call.i + 1]
               /\ ev' = Ev("JB_FallbackSkip", unit, 0, call.i, TRUE)
    /\ UNCHANGED <<pc, config, listVars, view_mode, detail, confirmation,
                   statusVars, workerVars>>

\* Ok(out)
JB_Return ==
    /\ call.fn = "latest_log_lines_batch"
    /\ call.pc = "fallback"
    /\ call.i > Len(call.unresolved)
    /\ call' = [call EXCEPT !.pc = "done", !.ret = [ok |-> TRUE, logs |-> call.out]]
    /\ ev' = Ev("JB_Return", NoUnit, 0, Cardinality(DOMAIN call.out), TRUE)
    /\ UNCHANGED <<pc, config, listVars, view_mode, detail, confirmation,
                   statusVars, workerVars>>

\* ================================================ Trusted Executor (command.rs)
ALLOWED_BINARIES == {"systemctl", "journalctl"}

\* The directories of the host. Directory 2 is a subdirectory of directory 1;
\* directories 1 and 3 lie below neither of the others.
HostDirs == {1, 2, 3}
ParentDir(d) == IF d = 2 THEN 1 ELSE 0

\* Path::starts_with for a canonical file path in directory `dir`
starts_with(dir, root) == dir = root \/ ParentDir(dir) = root

\* What `dir/binary` is: nothing, a regular file (executable or not), or a
\* symlink into directory `to`, to the file of the same name or to an
\* executable regular file of another name ("python").
NoEntry == [kind |-> "absent"]
PlainFile == [kind |-> "file"]
ExecFile == [kind |-> "exec"]
LinkTo(to, same_name) == [kind |-> "link", to |-> to, same_name |-> same_name]
DirEntries(d) ==
    {NoEntry, PlainFile, ExecFile}
        \cup { LinkTo(t, TRUE) : t \in HostDirs \ {d} }
        \cup { LinkTo(t, FALSE) : t \in HostDirs }

\* A filesystem: per directory its mode bits 0o022 clear or not, and its entry
\* for the binary. A same-name symlink points at a regular file or dangles.
Filesystems ==
    { fs \in [secure : [HostDirs -> BOOLEAN],
              entry : [HostDirs -> UNION { DirEntries(d) : d \in HostDirs }]] :
        \A d \in HostDirs :
            /\ fs.entry[d] \in DirEntries(d)
            /\ (fs.entry[d].kind = "link" /\ fs.entry[d].same_name)
                   => fs.entry[fs.entry[d].to].kind # "link" }

\* candidate.canonicalize(): the directory and file name the candidate
\* `dir/binary` resolves to, or None
canonicalize(fs, dir, binary) ==
    LET e == fs.entry[dir]
    IN IF e.kind \in {"file", "exec"} THEN Some([dir |-> dir, name |-> binary])
       ELSE IF e.kind = "absent" THEN None
       ELSE IF ~e.same_name THEN Some([dir |-> e.to, name |-> "python"])
       ELSE IF fs.entry[e.to].kind \in {"file", "exec"}
            THEN Some([dir |-> e.to, name |-> binary])
            ELSE None

\* Path::is_file (follows symlinks)
is_file(fs, dir, binary) == canonicalize(fs, dir, binary) # None

\* mode & 0o111 != 0 of the file the candidate resolves to
is_executable(fs, dir, binary) ==
    LET e == fs.entry[dir]
    IN IF e.kind = "link"
       THEN (~e.same_name) \/ fs.entry[e.to].kind = "exec"
       ELSE e.kind = "exec"

\* mode & 0o022 == 0
is_secure_dir(fs, dir) == fs.secure[dir]

CandidateDirs_PathFirst(trusted_dirs, path_entries) == path_entries \o trusted_dirs

\* trusted_dirs.iter().chain(path_entries.iter())
CandidateDirs(trusted_dirs, path_entries) == trusted_dirs \o path_entries

canonical_trusted_roots(fs, trusted_dirs, path_entries) ==
    { d \in Seq2Set(CandidateDirs(trusted_dirs, path_entries)) : is_secure_dir(fs, d) }

canonical_trusted_candidate(fs, dir, binary, trusted_roots) ==
    LET canon == canonicalize(fs, dir, binary)
    IN IF canon = None THEN None
       ELSE LET c == CHOOSE x \in canon : TRUE
            IN IF (\E root \in trusted_roots : starts_with(c.dir, root))
                    /\ c.name = binary
               THEN Some(c)
               ELSE None

ErrNotAllowed(binary) ==
    [ok |-> FALSE, binary |-> binary,
     message |-> "binary is not in the allowed external command list"]
ErrNotFound(binary) ==
    [ok |-> FALSE, binary |-> binary,
     message |-> IF binary = "systemctl"
                 THEN "no systemctl command found, do use systemd?"
                 ELSE IF binary = "journalctl"
                 THEN "no journalctl command found, do use systemd?"
                 ELSE "trusted binary not found in allowlisted directories"]
OkPath(canon) == [ok |-> TRUE, path |-> canon]
NoResult == [ok |-> FALSE, binary |-> "", message |-> ""]

\* resolve_trusted_binary_in(binary, path_env, trusted_dirs) at its entry.
\*   looked    the candidates looked at on the filesystem, in order
NewResolve(fs, binary, path_entries, trusted_dirs) ==
    [fn |-> "resolve_trusted_binary_in", pc |-> "entry", fs |-> fs,
     binary |-> binary, path_entries |-> path_entries,
     trusted_dirs |-> trusted_dirs, trusted_roots |-> {}, checked |-> {},
     k |-> 1, looked |-> <<>>, ret |-> NoResult]

\* The allow-list check, then path_entries and trusted_roots.
RB_Enter ==
    /\ call.fn = "resolve_trusted_binary_in"
    /\ call.pc = "entry"
    /\ call' = IF call.binary \notin ALLOWED_BINARIES
               THEN [call EXCEPT !.pc = "done", !.ret = ErrNotAllowed(call.binary)]
               ELSE [call EXCEPT
                       !.pc = "loop",
                       !.trusted_roots =
                           canonical_trusted_roots(call.fs, call.trusted_dirs,
                                                   call.path_entries)]
    /\ ev' = Ev("RB_Enter", NoUnit, 0, 0, call.binary \in ALLOWED_BINARIES)
    /\ UNCHANGED <<pc, config, listVars, view_mode, detail, confirmation,
                   statusVars, workerVars>>

\* One turn of `for dir in trusted_dirs.iter().chain(path_entries.iter())`.
RB_Candidate ==
    /\ call.fn = "resolve_trusted_binary_in"
    /\ call.pc = "loop"
    /\ call.k <= Len(CandidateDirs(call.trusted_dirs, call.path_entries))
    /\ LET dir == CandidateDirs(call.trusted_dirs, call.path_entries)[call.k]
           fresh == dir \notin call.checked
           next == [call EXCEPT !.k = call.k + 1,
                                !.checked = call.checked \cup {dir},
                                !.looked = IF fresh THEN Append(call.looked, dir)
                                           ELSE call.looked]
           accepted == canonical_trusted_candidate(call.fs, dir, call.binary,
                                                   call.trusted_roots)
       IN /\ call' =
               IF ~fresh \/ ~is_file(call.fs, dir, call.binary) THEN next
               ELSE IF ~is_executable(call.fs, dir, call.binary) THEN next
               ELSE IF accepted # None
               THEN [next EXCEPT !.pc = "done",
                                 !.ret = OkPath(CHOOSE c \in accepted : TRUE)]
               ELSE next
          /\ ev' = Ev("RB_Candidate", NoUnit, 0, dir, fresh)
    /\ UNCHANGED <<pc, config, listVars, view_mode, detail, confirmation,
                   statusVars, workerVars>>

\* No candidate was accepted: the error naming the program.
RB_NotFound ==
    /\ call.fn = "resolve_trusted_binary_in"
    /\ call.pc = "loop"
    /\ call.k > Len(CandidateDirs(call.trusted_dirs, call.path_entries))
    /\ call' = [call EXCEPT !.pc = "done", !.ret = ErrNotFound(call.binary)]
    /\ ev' = Ev("RB_NotFound", NoUnit, 0, 0, FALSE)
    /\ UNCHANGED <<pc, config, listVars, view_mode, detail, confirmation,
                   statusVars, workerVars>>

\* ------------------------------------------- cmd_stdout_with_timeout (command.rs)
\* The call, the child process, its two pipes and the two reader threads.
\*   plan      the chunks the child still writes, each to "out" or "err"
\*   hangs     the child never exits of itself
\*   heir      a process the child started holds the write ends of the pipes
\*             and outlives the child
\*   child     "none", "running", "zombie" (exited, not reaped) or "reaped"
\*   buffered  chunks in each pipe (a pipe holds at most MaxPipeChunks)
\*   captured  chunks each reader thread has read; finished: read_to_end is over
\*   deadline  start.elapsed() >= timeout from now on
NewCommand(spawn_ok, plan, status, hangs, heir) ==
    [fn |-> "cmd_stdout_with_timeout", pc |-> "spawn", spawn_ok |-> spawn_ok,
     plan |-> plan, status |-> status, hangs |-> hangs, heir |-> heir,
     child |-> "none", kill_sent |-> FALSE,
     wrote |-> [out |-> 0, err |-> 0],
     buffered |-> [out |-> 0, err |-> 0],
     captured |-> [out |-> 0, err |-> 0],
     finished |-> [out |-> FALSE, err |-> FALSE],
     joined |-> [out |-> FALSE, err |-> FALSE],
     deadline |-> FALSE, exit_before_deadline |-> FALSE,
     running_at_deadline |-> FALSE, polled |-> "none",
     ret |-> [kind |-> "none"]]

\* The child writes its next chunk; it blocks while that pipe is full.
Child_Write ==
    /\ call.fn = "cmd_stdout_with_timeout"
    /\ call.child = "running"
    /\ call.plan # <<>>
    /\ call.buffered[Head(call.plan)] < MaxPipeChunks
    /\ call' = [call EXCEPT !.plan = Tail(call.plan),
                            !.buffered[Head(call.plan)] = @ + 1,
                            !.wrote[Head(call.plan)] = @ + 1]
    /\ ev' = Ev("Child_Write", NoUnit, 0, Len(call.plan), TRUE)
    /\ UNCHANGED <<pc, config, listVars, view_mode, detail, confirmation,
                   statusVars, workerVars>>

\* The child exits of itself with its status, having written everything.
Child_Exit ==
    /\ call.fn = "cmd_stdout_with_timeout"
    /\ call.child = "running"
    /\ call.plan = <<>> /\ ~call.hangs
    /\ call' = [call EXCEPT !.child = "zombie",
                            !.exit_before_deadline = ~call.deadline]
    /\ ev' = Ev("Child_Exit", NoUnit, 0, call.status, call.status = 0)
    /\ UNCHANGED <<pc, config, listVars, view_mode, detail, confirmation,
                   statusVars, workerVars>>

\* read_to_end of one reader thread: a chunk is read
Reader_Read(stream) ==
    /\ call.fn = "cmd_stdout_with_timeout"
    /\ call.child # "none" /\ ~call.finished[stream]
    /\ call.buffered[stream] > 0
    /\ call' = [call EXCEPT !.buffered[stream] = @ - 1,
                            !.captured[stream] = @ + 1]
    /\ ev' = Ev("Reader_Read", NoUnit, 0, call.captured[stream], stream = "out")
    /\ UNCHANGED <<pc, config, listVars, view_mode, detail, confirmation,
                   statusVars, workerVars>>

\* read_to_end returns at end of file: the pipe is empty and no process
\* holds its write end any more; the reader thread ends.
Reader_Eof(stream) ==
    /\ call.fn = "cmd_stdout_with_timeout"
    /\ call.child \in {"zombie", "reaped"} /\ ~call.heir
    /\ ~call.finished[stream]
    /\ call.buffered[stream] = 0
    /\ call' = [call EXCEPT !.finished[stream] = TRUE]
    /\ ev' = Ev("Reader_Eof", NoUnit, 0, call.captured[stream], stream = "out")
    /\ UNCHANGED <<pc, config, listVars, view_mode, detail, confirmation,
                   statusVars, workerVars>>

\* Time passes the deadline.
Deadline ==
    /\ call.fn = "cmd_stdout_with_timeout"
    /\ call.child # "none" /\ call.pc # "done"
    /\ ~call.deadline
    /\ call' = [call EXCEPT !.deadline = TRUE,
                            !.running_at_deadline = (call.child = "running")]
    /\ ev' = Ev("Deadline", NoUnit, 0, 0, call.child = "running")
    /\ UNCHANGED <<pc, config, listVars, view_mode, detail, confirmation,
                   statusVars, workerVars>>

\* cmd.spawn()?, the pipes taken, the two reader threads started
CS_Spawn ==
    /\ call.fn = "cmd_stdout_with_timeout"
    /\ call.pc = "spawn"
    /\ call' = IF call.spawn_ok
               THEN [call EXCEPT !.pc = "try_wait", !.child = "running"]
               ELSE [call EXCEPT !.pc = "done", !.ret = [kind |-> "Io"]]
    /\ ev' = Ev("CS_Spawn", NoUnit, 0, 0, call.spawn_ok)
    /\ UNCHANGED <<pc, config, listVars, view_mode, detail, confirmation,
                   statusVars, workerVars>>

\* `if let Some(status) = child.try_wait()? { break status; }`
CS_TryWait ==
    /\ call.fn = "cmd_stdout_with_timeout"
    /\ call.pc = "try_wait"
    /\ call' = IF call.child = "zombie"
               THEN [call EXCEPT !.pc = "join_out", !.child = "reaped",
                                 !.polled = "exited"]
               ELSE [call EXCEPT !.pc = "elapsed"]
    /\ ev' = Ev("CS_TryWait", NoUnit, 0, 0, call.child = "zombie")
    /\ UNCHANGED <<pc, config, listVars, view_mode, detail, confirmation,
                   statusVars, workerVars>>

\* `if start.elapsed() >= timeout { .. }`, else sleep 10 ms and poll again
CS_Elapsed ==
    /\ call.fn = "cmd_stdout_with_timeout"
    /\ call.pc = "elapsed"
    /\ call' = IF call.deadline
               THEN [call EXCEPT !.pc = "kill", !.polled = "running"]
               ELSE [call EXCEPT !.pc = "try_wait"]
    /\ ev' = Ev("CS_Elapsed", NoUnit, 0, 0, call.deadline)
    /\ UNCHANGED <<pc, config, listVars, view_mode, detail, confirmation,
                   statusVars, workerVars>>

\* `let _ = child.kill();`
CS_Kill ==
    /\ call.fn = "cmd_stdout_with_timeout"
    /\ call.pc = "kill"
    /\ call' = [call EXCEPT !.pc = "wait", !.kill_sent = TRUE,
                            !.child = IF call.child = "running" THEN "zombie"
                                      ELSE call.child]
    /\ ev' = Ev("CS_Kill", NoUnit, 0, 0, call.child = "running")
    /\ UNCHANGED <<pc, config, listVars, view_mode, detail, confirmation,
                   statusVars, workerVars>>

\* `let _ = child.wait();` returns once the child has exited, and reaps it
CS_Wait ==
    /\ call.fn = "cmd_stdout_with_timeout"
    /\ call.pc = "wait"
    /\ call.child = "zombie"
    /\ call' = [call EXCEPT !.pc = "join_out", !.child = "reaped"]
    /\ ev' = Ev("CS_Wait", NoUnit, 0, 0, TRUE)
    /\ UNCHANGED <<pc, config, listVars, view_mode, detail, confirmation,
                   statusVars, workerVars>>

\* stdout_handle.join(), then stderr_handle.join(): each returns once its
\* reader thread has ended
CS_Join(stream) ==
    /\ call.fn = "cmd_stdout_with_timeout"
    /\ call.pc = IF stream = "out" THEN "join_out" ELSE "join_err"
    /\ call.finished[stream]
    /\ call' = [call EXCEPT !.pc = IF stream = "out" THEN "join_err" ELSE "return",
                            !.joined[stream] = TRUE]
    /\ ev' = Ev("CS_Join", NoUnit, 0, call.captured[stream], stream = "out")
    /\ UNCHANGED <<pc, config, listVars, view_mode, detail, confirmation,
                   statusVars, workerVars>>

CommandResult_StdoutOnFailure(c) ==
    IF c.polled = "running" THEN [kind |-> "Timeout"]
    ELSE [kind |-> "Ok", stdout |-> c.captured.out]

\* Err(Timeout), Err(NonZeroExit { status, stderr }) or Ok(stdout)
CommandResult(c) ==
    IF c.polled = "running" THEN [kind |-> "Timeout"]
    ELSE IF c.status # 0
    THEN [kind |-> "NonZeroExit", status |-> c.status, stderr |-> c.captured.err]
    ELSE [kind |-> "Ok", stdout |-> c.captured.out]

CS_Return ==
    /\ call.fn = "cmd_stdout_with_timeout"
    /\ call.pc = "return"
    /\ call' = [call EXCEPT !.pc = "done", !.ret = CommandResult(call)]
    /\ ev' = Ev("CS_Return", NoUnit, 0, 0, call.polled = "exited")
    /\ UNCHANGED <<pc, config, listVars, view_mode, detail, confirmation,
                   statusVars, workerVars>>

\* ============================================================== specification
\* The locals of run() when the loop is entered, for a given Config, with the
\* controller at position p.
\* The locals of run() before its loop, with the controller at `p`.
ControllerFields(cfg, p) ==
    /\ pc = p
    /\ config = cfg
    /\ refresh_requested = TRUE
    /\ phase = "Idle"
    /\ loaded_once = FALSE
    /\ last_load_error = FALSE
    /\ last_load_error_message = None
    /\ rows = <<>>
    /\ row_index_by_unit = IndexByUnit(<<>>)
    /\ selected_idx = 0
    /\ view_mode = "List"
    /\ detail = DetailDefault
    /\ confirmation = None
    /\ status_line_overrides_stale = FALSE
    /\ status_line = list_status_text(0, None)
    /\ refreshW = <<>> /\ detailW = <<>> /\ resolutionW = <<>> /\ actionW = <<>>
    /\ ev = Ev("Init", NoUnit, 0, 0, FALSE)

StartState(cfg, p) == ControllerFields(cfg, p) /\ call = NoCall

DefaultConfig ==
    [load_filter |-> "loaded", active_filter |-> "active", sub_filter |-> "running"]

\* A library function run on its own: the controller is not running.
LibraryInit(c) == ControllerFields(DefaultConfig, "lib") /\ call = c

ControllerInit(cfg) == StartState(cfg, "spawn")

\* The five sections of one loop iteration before the key dispatch.
LoopStep ==
    \/ SpawnStep
    \/ RefreshRecv
    \/ DetailRecv
    \/ ResolutionRecv
    \/ ActionRecv
    \/ PollTimeout

\* Refresh workers on a host whose units and journal change freely.
RefreshWorkerStep ==
    \E i \in 1..Len(refreshW) :
        \/ \E res \in FetchResults(should_fetch_all(config)) : RW_Fetch(i, res)
        \/ /\ refreshW[i].pc = "logs"
           /\ \E res \in BatchResults(BatchUnits(refreshW[i])) : RW_Batch(i, res)
        \/ RW_Finish(i)

\* Refresh workers on a steady host.
SteadyRefreshWorkerStep ==
    \E i \in 1..Len(refreshW) :
        \/ \E res \in SteadyFetchResults : RW_Fetch(i, res)
        \/ /\ refreshW[i].pc = "logs"
           /\ \E res \in SteadyBatchResults(BatchUnits(refreshW[i])) : RW_Batch(i, res)
        \/ RW_Finish(i)

DetailWorkerStep ==
    \E i \in 1..Len(detailW) : \E res \in DetailFetchResults : DW_Fetch(i, res)

\* Detail workers on a steady host: the journal holds the same entries for
\* every unit at every lookup, and a lookup can still fail.
SteadyDetailFetchResults ==
    { r \in DetailFetchResults : r.ok => r.n = MaxDetailLogs }

SteadyDetailWorkerStep ==
    \E i \in 1..Len(detailW) : \E res \in SteadyDetailFetchResults : DW_Fetch(i, res)

ResolutionWorkerStep ==
    \E i \in 1..Len(resolutionW) :
        \E read_ok \in BOOLEAN :
            \E value \in ActiveStateValues \cup UnitFileStateValues :
                RS_Resolve(i, read_ok, value)

ActionWorkerStep ==
    \E i \in 1..Len(actionW) : \E ok \in BOOLEAN : AW_Run(i, ok)

\* ---- DetailState driven through its methods, with any id and unit name
\* Unit names a caller may pass: the host's units and one more name.
ApiUnits == 1..(NumUnits + 1)

Call_begin_for_unit(unit) ==
    /\ pc = "api"
    /\ detail.next_request_id < MaxRequestId
    /\ detail' = begin_for_unit(detail, unit)
    /\ ev' = Ev("begin_for_unit", unit, detail'.next_request_id, 0, TRUE)
    /\ UNCHANGED <<pc, config, call, listVars, view_mode, confirmation, statusVars,
                   workerVars>>

Call_refresh ==
    /\ pc = "api"
    /\ detail.next_request_id < MaxRequestId
    /\ detail' = refresh(detail).d
    /\ ev' = Ev("refresh", detail.unit, detail'.next_request_id, 0,
                refresh(detail).ret # None)
    /\ UNCHANGED <<pc, config, call, listVars, view_mode, confirmation, statusVars,
                   workerVars>>

Call_apply_loaded(request_id, unit, n) ==
    /\ pc = "api"
    /\ detail' = apply_loaded(detail, request_id, unit, DetailLogs(unit, n)).d
    /\ ev' = Ev("apply_loaded", unit, request_id, n,
                apply_loaded(detail, request_id, unit, DetailLogs(unit, n)).ret)
    /\ UNCHANGED <<pc, config, call, listVars, view_mode, confirmation, statusVars,
                   workerVars>>

Call_apply_error(request_id, unit) ==
    /\ pc = "api"
    /\ detail' = apply_error(detail, request_id, unit, "journalctl failed").d
    /\ ev' = Ev("apply_error", unit, request_id, 0,
                apply_error(detail, request_id, unit, "journalctl failed").ret)
    /\ UNCHANGED <<pc, config, call, listVars, view_mode, confirmation, statusVars,
                   workerVars>>

\* `state.scroll = n`: scroll is a public field, written by the navigation
\* commands of the controller and by the unit tests of DetailState.
Call_set_scroll(n) ==
    /\ pc = "api"
    /\ detail' = [detail EXCEPT !.scroll = n]
    /\ ev' = Ev("set_scroll", detail.unit, 0, n, TRUE)
    /\ UNCHANGED <<pc, config, call, listVars, view_mode, confirmation, statusVars,
                   workerVars>>

Call_detail_move_down_unclamped ==
    /\ pc = "api"
    /\ detail' = IF detail.logs # <<>>
                 THEN [detail EXCEPT !.scroll = detail.scroll + 1]
                 ELSE detail
    /\ ev' = Ev("detail_move_down", detail.unit, 0, detail'.scroll, TRUE)
    /\ UNCHANGED <<pc, config, call, listVars, view_mode, confirmation, statusVars,
                   workerVars>>

\* UiCommand::MoveDown in ViewMode::Detail
Call_detail_move_down ==
    /\ pc = "api"
    /\ detail' = IF detail.logs # <<>>
                 THEN [detail EXCEPT
                          !.scroll = Min(detail.scroll + 1, Len(detail.logs) - 1)]
                 ELSE detail
    /\ ev' = Ev("detail_move_down", detail.unit, 0, detail'.scroll, TRUE)
    /\ UNCHANGED <<pc, config, call, listVars, view_mode, confirmation, statusVars,
                   workerVars>>

\* UiCommand::MoveUp in ViewMode::Detail
Call_detail_move_up ==
    /\ pc = "api"
    /\ detail' = [detail EXCEPT !.scroll = saturating_sub_1(detail.scroll)]
    /\ ev' = Ev("detail_move_up", detail.unit, 0, detail'.scroll, TRUE)
    /\ UNCHANGED <<pc, config, call, listVars, view_mode, confirmation, statusVars,
                   workerVars>>

InitDetailState == StartState(DefaultConfig, "api")

NextDetailState ==
    \/ \E unit \in ApiUnits : Call_begin_for_unit(unit)
    \/ Call_refresh
    \/ \E request_id \in 0..MaxRequestId : \E unit \in ApiUnits :
           \E n \in 0..MaxDetailLogs : Call_apply_loaded(request_id, unit, n)
    \/ \E request_id \in 0..MaxRequestId : \E unit \in ApiUnits :
           Call_apply_error(request_id, unit)
    \/ \E n \in 0..MaxDetailLogs : Call_set_scroll(n)

SpecDetailState == InitDetailState /\ [][NextDetailState]_vars

\* ---- DetailState under its methods and the scroll keys of the detail view,
\* with payloads of up to MaxDetailLogs + 1 entries so that a shorter payload
\* can arrive under a scroll offset that is not 0
NextDetailScroll ==
    \/ \E unit \in ApiUnits : Call_begin_for_unit(unit)
    \/ Call_refresh
    \/ \E request_id \in 0..MaxRequestId : \E unit \in ApiUnits :
           \E n \in 0..(MaxDetailLogs + 1) : Call_apply_loaded(request_id, unit, n)
    \/ \E request_id \in 0..MaxRequestId : \E unit \in ApiUnits :
           Call_apply_error(request_id, unit)
    \/ Call_detail_move_down
    \/ Call_detail_move_up

SpecDetailScroll == InitDetailState /\ [][NextDetailScroll]_vars

\* ---- one refresh worker whose Receiver is kept and never read, so that the
\* ---- queue of its channel is everything the worker has sent
\* fetch_services answers with n running units, or fails.
SizedFetchResults ==
    { [ok |-> TRUE,
       units |-> [u \in 1..n |->
                     SystemctlUnit(u, [load |-> "loaded", active |-> "active",
                                       sub |-> "running"])]] :
      n \in 0..MaxWorkerUnits }
        \cup { [ok |-> FALSE, units |-> <<>>] }

\* latest_log_lines_batch answers with a line per unit, or fails.
SizedBatchResults(units) ==
    SteadyBatchResults(units) \cup { [ok |-> FALSE, logs |-> NoLogs] }

InitRefreshWorker ==
    /\ pc = "worker"
    /\ config = DefaultConfig
    /\ refresh_requested = FALSE
    /\ phase = "FetchingUnits"
    /\ loaded_once = FALSE
    /\ last_load_error = FALSE
    /\ last_load_error_message = None
    /\ rows = <<>>
    /\ row_index_by_unit = IndexByUnit(<<>>)
    /\ selected_idx = 0
    /\ view_mode = "List"
    /\ detail = DetailDefault
    /\ confirmation = None
    /\ status_line_overrides_stale = FALSE
    /\ status_line = loading_units_status_text
    /\ refreshW = <<NewRefreshWorker(<<>>)>>
    /\ detailW = <<>> /\ resolutionW = <<>> /\ actionW = <<>>
    /\ ev = Ev("SpawnRefresh", NoUnit, 0, 0, TRUE)
    /\ call = NoCall

NextRefreshWorker ==
    \/ \E res \in SizedFetchResults : RW_Fetch(1, res)
    \/ /\ Len(refreshW) = 1
       /\ refreshW[1].pc = "logs"
       /\ \E res \in SizedBatchResults(BatchUnits(refreshW[1])) : RW_Batch(1, res)
    \/ RW_Finish(1)

SpecRefreshWorker == InitRefreshWorker /\ [][NextRefreshWorker]_vars

\* ---- the list view: refresh cycles on a changing host
InitList == \E cfg \in Configs : ControllerInit(cfg)

NextList ==
    \/ LoopStep
    \/ PressQuit \/ PressRefresh \/ PressMoveDown \/ PressMoveUp
    \/ RefreshWorkerStep
    \/ RefreshPanics

SpecList == InitList /\ [][NextList]_vars

\* ---- the detail view on a steady host
InitDetail == ControllerInit(DefaultConfig)

NextDetail ==
    \/ LoopStep
    \/ PressQuit \/ PressRefresh \/ PressMoveDown \/ PressMoveUp
    \/ PressOpenDetail \/ PressBackToList \/ PressRefreshDetail
    \/ SteadyRefreshWorkerStep
    \/ SteadyDetailWorkerStep
    \/ DetailPanics

SpecDetailView == InitDetail /\ [][NextDetail]_vars

\* ---- unit actions on a steady host
NextAction ==
    \/ LoopStep
    \/ PressQuit \/ PressRefresh
    \/ PressRequestStartStop \/ PressRequestEnableDisable
    \/ PressConfirm \/ PressChooseRestart \/ PressChooseStop \/ PressCancel
    \/ SteadyRefreshWorkerStep
    \/ ResolutionWorkerStep \/ ActionWorkerStep
    \/ ResolutionPanics \/ ActionPanics

SpecAction == InitDetail /\ [][NextAction]_vars

\* ---- sort_rows on slices of up to MaxRowsLen rows, sorted and sorted again
\* Unit states that reach every rank of every key, in combinations where a
\* later key would order two rows the other way.
SortStates ==
    { [load |-> "loaded", active |-> "active", sub |-> "running"],
      [load |-> "loaded", active |-> "active", sub |-> "exited"],
      [load |-> "loaded", active |-> "active", sub |-> "dead"],
      [load |-> "loaded", active |-> "active", sub |-> "failed"],
      [load |-> "loaded", active |-> "inactive", sub |-> "running"],
      [load |-> "loaded", active |-> "failed", sub |-> "running"],
      [load |-> "not-found", active |-> "active", sub |-> "running"],
      [load |-> "masked", active |-> "active", sub |-> "running"] }

SortRows ==
    { build_rows(<<SystemctlUnit(u, st)>>)[1] : u \in 1..MaxRowUnits, st \in SortStates }

SortInputs == UNION { [1..n -> SortRows] : n \in 0..MaxRowsLen }

\* workers.rs: sort_rows(&mut rows, show_all) on the freshly built rows
Call_sort_rows ==
    /\ call.fn = "sort_rows"
    /\ call.pc = "call"
    /\ call' = [call EXCEPT !.pc = "again",
                            !.sorted = sort_rows(call.rows, call.show_all)]
    /\ ev' = Ev("sort_rows", NoUnit, 0, Len(call.rows), call.show_all)
    /\ UNCHANGED <<pc, config, listVars, view_mode, detail, confirmation,
                   statusVars, workerVars>>

\* sort_rows once more, on its own output
Call_sort_rows_again ==
    /\ call.fn = "sort_rows"
    /\ call.pc = "again"
    /\ call' = [call EXCEPT !.pc = "done",
                            !.resorted = sort_rows(call.sorted, call.show_all)]
    /\ ev' = Ev("sort_rows_again", NoUnit, 0, Len(call.rows), call.show_all)
    /\ UNCHANGED <<pc, config, listVars, view_mode, detail, confirmation,
                   statusVars, workerVars>>

InitSort ==
    \E rs \in SortInputs, show_all \in BOOLEAN :
        LibraryInit([fn |-> "sort_rows", pc |-> "call", rows |-> rs,
                     show_all |-> show_all, sorted |-> <<>>, resorted |-> <<>>])

NextSort == Call_sort_rows \/ Call_sort_rows_again

SpecSort == InitSort /\ [][NextSort]_vars

\* ---- the list selection on a host whose running units come and go, with
\* one unit more than the other scenarios so that the list can shrink under
\* a selection that is not on the first row
SelectionFetchResults ==
    { [ok |-> TRUE, units |-> l] : l \in ListingsFrom(1, NumUnits + 1, FALSE) }
        \cup { [ok |-> FALSE, units |-> <<>>] }

SelectionRefreshWorkerStep ==
    \E i \in 1..Len(refreshW) :
        \/ \E res \in SelectionFetchResults : RW_Fetch(i, res)
        \/ /\ refreshW[i].pc = "logs"
           /\ \E res \in SteadyBatchResults(BatchUnits(refreshW[i])) : RW_Batch(i, res)
        \/ RW_Finish(i)

NextSelection ==
    \/ LoopStep
    \/ PressRefresh \/ PressMoveDown \/ PressMoveUp
    \/ SelectionRefreshWorkerStep

SpecSelection == InitDetail /\ [][NextSelection]_vars

\* ---- refresh cycles under fair scheduling, on a changing host: the loop
\* keeps turning (poll returns after 50 ms at the latest, nobody quits) and
\* the refresh worker thread runs on until it returns or panics
NextRefreshCycle ==
    \/ LoopStep
    \/ PressRefresh
    \/ RefreshWorkerStep
    \/ RefreshPanics

SpecRefreshCycle == InitDetail /\ [][NextRefreshCycle]_vars

FairSpecRefreshCycle ==
    /\ SpecRefreshCycle
    /\ WF_vars(LoopStep \/ PressRefresh)
    /\ WF_vars(RefreshWorkerStep)

\* ---- the detail view under fair scheduling: the loop keeps turning, nobody
\* quits, and every detail worker sends its single message
DetailLoopStep ==
    \/ LoopStep
    \/ PressMoveDown
    \/ PressOpenDetail \/ PressBackToList \/ PressRefreshDetail

NextDetailLive ==
    \/ DetailLoopStep
    \/ SteadyRefreshWorkerStep
    \/ SteadyDetailWorkerStep

SpecDetailLive == InitDetail /\ [][NextDetailLive]_vars

FairSpecDetailLive ==
    /\ SpecDetailLive
    /\ WF_vars(DetailLoopStep)
    /\ WF_vars(SteadyRefreshWorkerStep)
    /\ WF_vars(SteadyDetailWorkerStep)

\* ---- confirmation prompts: every list-view key, on a steady host that has
\* one unit more than the other scenarios, so that the selection can move
\* between an action request and its confirmation
PromptFetchResults ==
    { [ok |-> TRUE,
       units |-> [u \in 1..(NumUnits + 1) |->
                     SystemctlUnit(u, [load |-> "loaded", active |-> "active",
                                       sub |-> "running"])]] }

PromptRefreshWorkerStep ==
    \E i \in 1..Len(refreshW) :
        \/ \E res \in PromptFetchResults : RW_Fetch(i, res)
        \/ /\ refreshW[i].pc = "logs"
           /\ \E res \in SteadyBatchResults(BatchUnits(refreshW[i])) : RW_Batch(i, res)
        \/ RW_Finish(i)

NextPrompt ==
    \/ LoopStep
    \/ PressQuit \/ PressRefresh \/ PressMoveDown \/ PressMoveUp
    \/ PressOpenDetail
    \/ PressRequestStartStop \/ PressRequestEnableDisable
    \/ PressConfirm \/ PressChooseRestart \/ PressChooseStop \/ PressCancel
    \/ PromptRefreshWorkerStep
    \/ ResolutionWorkerStep \/ ActionWorkerStep

SpecPrompt == InitDetail /\ [][NextPrompt]_vars

\* ---- every kind of worker, on a host where journalctl and unit actions fail
FailingDetailWorkerStep ==
    \E i \in 1..Len(detailW) :
        \E res \in { r \in DetailFetchResults : ~r.ok } : DW_Fetch(i, res)

FailingActionWorkerStep ==
    \E i \in 1..Len(actionW) : AW_Run(i, FALSE)

NextErrors ==
    \/ LoopStep
    \/ PressQuit
    \/ PressOpenDetail
    \/ PressRequestStartStop \/ PressRequestEnableDisable
    \/ PressConfirm \/ PressChooseRestart \/ PressChooseStop \/ PressCancel
    \/ SteadyRefreshWorkerStep
    \/ FailingDetailWorkerStep
    \/ ResolutionWorkerStep \/ FailingActionWorkerStep

SpecErrors == InitDetail /\ [][NextErrors]_vars

\* ---- latest_log_lines_batch on batches of up to MaxBatchUnits distinct units
BatchNames == { [i \in 1..n |-> i] : n \in 1..MaxBatchUnits }

\* What a journalctl child may print for the units it is asked about: a record
\* for each of the first k of them, or a single record for any one of them,
\* with a message or with a blank one.
BatchStreams(unit_names) ==
    { [i \in 1..k |-> UnitLine(unit_names[i], "a")] : k \in 0..Len(unit_names) }
        \cup { <<UnitLine(u, m)>> : u \in Seq2Set(unit_names), m \in {"a", " "} }

StreamStep ==
    \/ JS_Recv
    \/ JS_Timeout
    \/ \E outcome \in ChildOutcomes : JS_Finish(outcome)

InitBatch == \E names \in BatchNames : LibraryInit(NewBatch("System", names))

NextBatch ==
    \/ \E spawn_ok \in BOOLEAN : \E lines \in BatchStreams(call.unresolved) :
           JB_Attempt(spawn_ok, lines)
    \/ JB_LoopEnd
    \/ StreamStep
    \/ JB_Merge
    \/ \E res \in LastLogLineResults : JB_Fallback(res)
    \/ JB_Return

SpecBatch == InitBatch /\ [][NextBatch]_vars

\* ---- latest_log_lines_batch on batches of up to MaxLargeBatchUnits units, on
\* ---- a host whose journal answers every query: a child prints a record for
\* ---- the first k units it is asked about and exits, last_log_line finds a line
LargeBatchNames == { [i \in 1..n |-> i] : n \in 1..MaxLargeBatchUnits }

SteadyStreams(unit_names) ==
    { [i \in 1..k |-> UnitLine(unit_names[i], "a")] : k \in 0..Len(unit_names) }

InitLargeBatch == \E names \in LargeBatchNames : LibraryInit(NewBatch("System", names))

NextLargeBatch ==
    \/ \E lines \in SteadyStreams(call.unresolved) : JB_Attempt(TRUE, lines)
    \/ JB_LoopEnd
    \/ JS_Recv
    \/ JS_Finish("exit_ok")
    \/ JB_Merge
    \/ JB_Fallback([ok |-> TRUE, line |-> "a"])
    \/ JB_Return

SpecLargeBatch == InitLargeBatch /\ [][NextLargeBatch]_vars

\* ---- batch_line_budget called with any unit count and attempt number
Call_batch_line_budget ==
    /\ call.fn = "batch_line_budget"
    /\ call.pc = "call"
    /\ call' = [call EXCEPT !.pc = "done",
                            !.ret = batch_line_budget(call.unit_count, call.attempt)]
    /\ ev' = Ev("batch_line_budget", NoUnit, 0, call.unit_count, TRUE)
    /\ UNCHANGED <<pc, config, listVars, view_mode, detail, confirmation,
                   statusVars, workerVars>>

\* The next call, one attempt later.
Call_next_attempt ==
    /\ call.fn = "batch_line_budget"
    /\ call.pc = "done"
    /\ call.attempt < MaxBudgetAttempt
    /\ call' = [call EXCEPT !.pc = "call", !.attempt = call.attempt + 1,
                            !.previous = call.ret]
    /\ ev' = Ev("next_attempt", NoUnit, 0, call.unit_count, TRUE)
    /\ UNCHANGED <<pc, config, listVars, view_mode, detail, confirmation,
                   statusVars, workerVars>>

InitBudget ==
    \E n \in 0..MaxBudgetUnits :
        LibraryInit([fn |-> "batch_line_budget", pc |-> "call", unit_count |-> n,
                     attempt |-> 0, previous |-> 0, ret |-> 0])

NextBudget == Call_batch_line_budget \/ Call_next_attempt

SpecBudget == InitBudget /\ [][NextBudget]_vars

\* ---- stream_batch_latest_logs on its own: any wanted units, any line budget
\* ---- and any output of the child, well-formed or not
StreamUnitNames == { <<1>>, <<1, 2>> }

StreamAlphabet ==
    { GarbageLine, AnonymousLine("a") }
        \cup { UnitLine(u, m) : u \in {1, 2}, m \in Messages }

StreamOutputs ==
    UNION { [1..n -> StreamAlphabet] : n \in 0..MaxStreamLen }

InitStream ==
    \E unit_names \in StreamUnitNames : \E line_budget \in 0..MaxStreamLen :
        \E lines \in StreamOutputs :
            LibraryInit([fn |-> "stream_batch_latest_logs",
                         s |-> NewStream("System", unit_names, line_budget, lines)])

NextStream == StreamStep

SpecStream == InitStream /\ [][NextStream]_vars

\* ---- the row helpers called as the refresh worker and the UnitsLoaded arm
\* ---- call them, on row sets of up to MaxRowsLen units out of MaxRowUnits
RowNames ==
    { names \in UNION { [1..n -> 1..MaxRowUnits] : n \in 0..MaxRowsLen } :
        \A i, j \in 1..Len(names) : i # j => names[i] # names[j] }

\* The rows build_rows makes of a listing of `names`, each unit in some state.
BuiltRows(names) ==
    { build_rows([i \in 1..Len(names) |-> SystemctlUnit(names[i], sts[i])]) :
        sts \in [1..Len(names) -> UnitStates] }

\* Rows on display: running units, each with a log cell.
ShownLogs == {"", "A", "B"}
ShownRows(names) ==
    { [i \in 1..Len(names) |->
          [unit |-> names[i], load |-> "loaded", active |-> "active",
           sub |-> "running", last_log |-> logs[i]]] :
        logs \in [1..Len(names) -> ShownLogs] }

\* workers.rs 61-62: build_rows, then seed_logs_from_previous
Call_seed_logs_from_previous ==
    /\ call.fn = "seed_logs_from_previous"
    /\ call.pc = "call"
    /\ call' = [call EXCEPT
          !.pc = "done",
          !.ret = seed_logs_from_previous(call.new_rows, call.previous_rows)]
    /\ ev' = Ev("seed_logs_from_previous", NoUnit, 0, Len(call.new_rows), TRUE)
    /\ UNCHANGED <<pc, config, listVars, view_mode, detail, confirmation,
                   statusVars, workerVars>>

\* mod.rs 249-256: previous_selected, `rows = new_rows`, preserve_selection
Call_preserve_selection ==
    /\ call.fn = "preserve_selection"
    /\ call.pc = "call"
    /\ call' = [call EXCEPT
          !.pc = "done",
          !.ret = preserve_selection(SelectedUnit(call.rows, call.selected_idx),
                                     call.new_rows, call.selected_idx)]
    /\ ev' = Ev("preserve_selection", NoUnit, 0, Len(call.new_rows), TRUE)
    /\ UNCHANGED <<pc, config, listVars, view_mode, detail, confirmation,
                   statusVars, workerVars>>

InitRows ==
    \/ \E new_names \in RowNames, previous_names \in RowNames :
          \E new_rows \in BuiltRows(new_names) :
              \E previous_rows \in ShownRows(previous_names) :
                  LibraryInit([fn |-> "seed_logs_from_previous", pc |-> "call",
                               new_rows |-> new_rows,
                               previous_rows |-> previous_rows, ret |-> <<>>])
    \/ \E names \in RowNames, new_names \in RowNames :
          \E sel \in 0..saturating_sub_1(Len(names)) :
              \E shown \in ShownRows(names), new_rows \in BuiltRows(new_names) :
                  LibraryInit([fn |-> "preserve_selection", pc |-> "call",
                               rows |-> shown, selected_idx |-> sel,
                               new_rows |-> new_rows, ret |-> 0])

NextRows == Call_seed_logs_from_previous \/ Call_preserve_selection

SpecRows == InitRows /\ [][NextRows]_vars

\* ---- one LogsProgress message applied to a list that shows logs
\* The log entries of a message: any units, each with a log line.
ProgressLogs ==
    UNION { [us -> {"C", "D"}] : us \in SUBSET (1..MaxRowUnits) }

Call_OnLogsProgress ==
    /\ call.fn = "OnLogsProgress"
    /\ call.pc = "call"
    /\ call' = [call EXCEPT
          !.pc = "done",
          !.ret = OnLogsProgress(call.L, call.done, call.total, call.logs)]
    /\ ev' = Ev("OnLogsProgress", NoUnit, 0, call.done, TRUE)
    /\ UNCHANGED <<pc, config, listVars, view_mode, detail, confirmation,
                   statusVars, workerVars>>

InitLogsProgress ==
    \E names \in RowNames, logs \in ProgressLogs :
        \E shown \in ShownRows(names), sel \in 0..saturating_sub_1(Len(names)) :
            LET L == [rows |-> shown, row_index_by_unit |-> IndexByUnit(shown),
                      selected_idx |-> sel, loaded_once |-> TRUE,
                      last_load_error |-> FALSE, last_load_error_message |-> None,
                      phase |-> "FetchingLogs",
                      status_line |->
                          list_status_text(Len(shown), Some(<<0, Len(shown)>>)),
                      status_line_overrides_stale |-> FALSE]
            IN LibraryInit([fn |-> "OnLogsProgress", pc |-> "call", L |-> L,
                            done |-> Cardinality(DOMAIN logs), total |-> Len(shown),
                            logs |-> logs, ret |-> L])

NextLogsProgress == Call_OnLogsProgress

SpecLogsProgress == InitLogsProgress /\ [][NextLogsProgress]_vars

\* ---- unit_from_journal_entry_for_scope on any JSON object: each of the
\* ---- unit-naming keys is absent, a string or a value of another JSON type
JournalKeys ==
    <<"_SYSTEMD_UNIT", "_SYSTEMD_USER_UNIT", "UNIT", "USER_UNIT",
      "OBJECT_SYSTEMD_UNIT", "OBJECT_SYSTEMD_USER_UNIT", "COREDUMP_UNIT",
      "COREDUMP_USER_UNIT">>

\* The string stored under key number k names unit k.
JournalObjects ==
    { [strings |-> [key \in { JournalKeys[k] : k \in str } |->
                      CHOOSE k \in str : JournalKeys[k] = key],
       others |-> { JournalKeys[k] : k \in oth }] :
         str \in SUBSET (1..Len(JournalKeys)),
         oth \in SUBSET (1..Len(JournalKeys)) }

\* `value.get(field).and_then(|v| v.as_str())` is Some only for a key that
\* holds a string.
as_str_fields(object) ==
    [key \in DOMAIN object.strings \ object.others |-> object.strings[key]]

Call_unit_from_journal_entry_for_scope ==
    /\ call.fn = "unit_from_journal_entry_for_scope"
    /\ call.pc = "call"
    /\ call' = [call EXCEPT
          !.pc = "done",
          !.ret = unit_from_journal_entry_for_scope(
                      call.scope,
                      JournalLine(TRUE, as_str_fields(call.object), "a"))]
    /\ ev' = Ev("unit_from_journal_entry_for_scope", NoUnit, 0, 0, TRUE)
    /\ UNCHANGED <<pc, config, listVars, view_mode, detail, confirmation,
                   statusVars, workerVars>>

InitJournalEntry ==
    \E scope \in {"System", "User"}, object \in JournalObjects :
        LibraryInit([fn |-> "unit_from_journal_entry_for_scope", pc |-> "call",
                     scope |-> scope, object |-> object, ret |-> None])

NextJournalEntry == Call_unit_from_journal_entry_for_scope

SpecJournalEntry == InitJournalEntry /\ [][NextJournalEntry]_vars

\* ---- the refresh worker's query (should_fetch_all, fetch_services,
\* ---- filter_services) for every filter configuration on any host of up to
\* ---- NumUnits + 1 service units
FilterConfigs ==
    { [load_filter |-> l, active_filter |-> a, sub_filter |-> sb] :
        l \in {"all", "loaded", "not-found"},
        a \in {"all", "active", "inactive"},
        sb \in {"all", "running", "exited"} }

HostUnitStates ==
    SortStates \cup
        { [load |-> "loaded", active |-> "inactive", sub |-> "dead"],
          [load |-> "not-found", active |-> "inactive", sub |-> "dead"] }

\* The service units of a host, by name, each in any state.
RECURSIVE HostsFrom(_, _)
HostsFrom(u, last) ==
    IF u > last THEN { <<>> }
    ELSE LET rest == HostsFrom(u + 1, last)
         IN rest \cup { <<SystemctlUnit(u, st)>> \o r :
                           st \in HostUnitStates, r \in rest }

\* What `systemctl list-units --type=service` prints on the host: with --all
\* every unit, with --state=running the units whose sub state is running.
list_units(host, show_all) ==
    IF show_all THEN host
    ELSE SelectSeq(host, LAMBDA u : u.sub = "running")

Call_fetch_filtered ==
    /\ call.fn = "fetch_filtered"
    /\ call.pc = "call"
    /\ LET fetch_all == should_fetch_all(call.cfg)
       IN call' = [call EXCEPT
              !.pc = "done",
              !.fetch_all = fetch_all,
              !.ret = filter_services(list_units(call.host, fetch_all),
                                      call.cfg)]
    /\ ev' = Ev("fetch_filtered", NoUnit, 0, Len(call.host), TRUE)
    /\ UNCHANGED <<pc, config, listVars, view_mode, detail, confirmation,
                   statusVars, workerVars>>

InitQuery ==
    \E cfg \in FilterConfigs, host \in HostsFrom(1, NumUnits + 1) :
        LibraryInit([fn |-> "fetch_filtered", pc |-> "call", cfg |-> cfg,
                     host |-> host, fetch_all |-> TRUE, ret |-> <<>>])

NextQuery == Call_fetch_filtered

SpecQuery == InitQuery /\ [][NextQuery]_vars

\* ---- resolve_trusted_binary_in on any filesystem, for any program name, with
\* ---- a PATH of up to MaxPathLen entries and directory 1 trusted or none
RequestedBinaries == ALLOWED_BINARIES \cup {"sh"}
PathEntries == UNION { [1..n -> HostDirs] : n \in 0..MaxPathLen }
TrustedDirChoices == { <<>>, <<1>> }

InitResolve ==
    \E fs \in Filesystems, binary \in RequestedBinaries,
       path_entries \in PathEntries, trusted_dirs \in TrustedDirChoices :
        LibraryInit(NewResolve(fs, binary, path_entries, trusted_dirs))

NextResolve == RB_Enter \/ RB_Candidate \/ RB_NotFound

SpecResolve == InitResolve /\ [][NextResolve]_vars

\* ---- cmd_stdout_with_timeout with any child: up to MaxChildWrites chunks to
\* ---- stdout and stderr in any order, any exit status, exiting or not
ChildPlans == UNION { [1..n -> {"out", "err"}] : n \in 0..MaxChildWrites }

InitCommand ==
    \E spawn_ok \in BOOLEAN, plan \in ChildPlans, status \in {0, 1},
       hangs \in BOOLEAN, heir \in BOOLEAN :
        /\ (~spawn_ok) => (plan = <<>> /\ status = 0 /\ ~hangs /\ ~heir)
        /\ LibraryInit(NewCommand(spawn_ok, plan, status, hangs, heir))

CallerStep ==
    \/ CS_Spawn \/ CS_TryWait \/ CS_Elapsed \/ CS_Kill \/ CS_Wait
    \/ CS_Join("out") \/ CS_Join("err") \/ CS_Return

NextCommand ==
    \/ CallerStep
    \/ Child_Write \/ Child_Exit
    \/ Reader_Read("out") \/ Reader_Read("err")
    \/ Reader_Eof("out") \/ Reader_Eof("err")
    \/ Deadline

SpecCommand == InitCommand /\ [][NextCommand]_vars

\* The caller and the reader threads keep running, a child that can write or
\* exit does so, and time passes.
FairSpecCommand ==
    /\ SpecCommand
    /\ WF_vars(CallerStep)
    /\ WF_vars(Child_Write) /\ WF_vars(Child_Exit)
    /\ WF_vars(Reader_Read("out")) /\ WF_vars(Reader_Read("err"))
    /\ WF_vars(Reader_Eof("out")) /\ WF_vars(Reader_Eof("err"))
    /\ WF_vars(Deadline)

\* ---- one action resolution: the worker reads the unit's property and sends
\* ---- its message, and the controller applies it
ActiveStateInputs ==
    ActiveStateValues \cup {"maintenance", "refreshing", "unknown"}
UnitFileStateInputs ==
    UnitFileStateValues \cup {"generated", "transient", "indirect", "alias", "bad"}

\* The body of the resolution worker thread (workers.rs 189-203)
Call_resolve_action_confirmation ==
    /\ call.fn = "resolve_action_confirmation"
    /\ call.pc = "resolve"
    /\ LET r == resolve_action_confirmation(call.request, call.read_ok, call.value)
       IN call' = [call EXCEPT
                     !.pc = "apply",
                     !.msg = IF r.ok
                             THEN ResolutionMsg("ActionConfirmationReady",
                                                call.request.unit, r.confirmation, "")
                             ELSE ResolutionMsg("ActionResolutionError",
                                                call.request.unit, r.confirmation,
                                                r.error)]
    /\ ev' = Ev("resolve_action_confirmation", call.request.unit, 0, 0, call.read_ok)
    /\ UNCHANGED <<pc, config, listVars, view_mode, detail, confirmation,
                   statusVars, workerVars>>

\* The controller applies the message to its state (no prompt is pending
\* while a resolution is in flight).
Call_apply_action_resolution_msg ==
    /\ call.fn = "resolve_action_confirmation"
    /\ call.pc = "apply"
    /\ call' = [call EXCEPT
                  !.pc = "done",
                  !.applied = apply_action_resolution_msg(
                                  None, list_status_text(0, None), FALSE, 0, call.msg)]
    /\ ev' = Ev(call.msg.kind, call.msg.unit, 0, 0, TRUE)
    /\ UNCHANGED <<pc, config, listVars, view_mode, detail, confirmation,
                   statusVars, workerVars>>

InitResolution ==
    \E kind \in {"StartStop", "EnableDisable"}, unit \in ApiUnits, read_ok \in BOOLEAN :
        \E value \in IF kind = "StartStop" THEN ActiveStateInputs
                      ELSE UnitFileStateInputs :
            LibraryInit([fn |-> "resolve_action_confirmation", pc |-> "resolve",
                         request |-> [kind |-> kind, unit |-> unit],
                         read_ok |-> read_ok, value |-> value,
                         msg |-> ResolutionMsg("", NoUnit, restart_or_stop(NoUnit), ""),
                         applied |-> [ret |-> FALSE]])

NextResolution == Call_resolve_action_confirmation \/ Call_apply_action_resolution_msg

SpecResolution == InitResolution /\ [][NextResolution]_vars

\* ================================================================ properties
\* The request the detail state is waiting for is (request_id, unit).
IsActiveRequest(d, request_id, unit) ==
    d.active_request_id = Some(request_id) /\ d.unit = unit

\* C1: apply_loaded and apply_error change the detail state only when the
\* request id equals the active request id and the unit equals the current
\* unit (then they return true, clear loading and store the logs or the
\* error); in every other case they return false and leave the whole state
\* as it was.
C1_ApplyOnlyActiveRequest ==
    [][ev'.op \in {"apply_loaded", "apply_error"} =>
          IF IsActiveRequest(detail, ev'.request_id, ev'.unit)
          THEN /\ ev'.ok
               /\ ~detail'.loading
               /\ detail'.unit = detail.unit
               /\ detail'.active_request_id = detail.active_request_id
               /\ IF ev'.op = "apply_loaded"
                  THEN /\ detail'.logs = DetailLogs(ev'.unit, ev'.n)
                       /\ detail'.error = None
                  ELSE /\ detail'.logs = detail.logs
                       /\ detail'.error # None
          ELSE ~ev'.ok /\ detail' = detail]_vars

\* begin(u1), begin(u2), then a loaded result for id 1 and u1: dropped, the
\* state still waits for id 2 of u2.
C1_Witness ==
    /\ ev.op = "apply_loaded" /\ ~ev.ok
    /\ ev.request_id = 1 /\ ev.unit = 1
    /\ detail.unit = 2 /\ detail.active_request_id = Some(2) /\ detail.loading

\* C2: in the controller loop a detail result of a superseded request never
\* changes the detail logs, error or loading flag: the logs, the error and
\* the loading flag change only by OpenDetail, Refresh, RefreshDetail or by
\* a message of the active request; every message the controller takes from
\* the detail channel belongs to the active request, and a worker of a
\* superseded request finds its channel closed.
C2_SupersededDetailResultNeverApplied ==
    [][/\ (\/ detail'.logs # detail.logs
           \/ detail'.error # detail.error
           \/ detail'.loading # detail.loading)
          => \/ ev'.op \in {"OpenDetail", "Refresh", "RefreshDetail"}
             \/ /\ ev'.op \in {"DetailLogsLoaded", "DetailLogsError"}
                /\ IsActiveRequest(detail, ev'.request_id, ev'.unit)
       /\ ev'.op \in {"DetailLogsLoaded", "DetailLogsError"}
          => /\ IsActiveRequest(detail, ev'.request_id, ev'.unit)
             /\ ev'.ok
       /\ ev'.op \in {"DW_Send", "DW_SendFailed"}
          => /\ detail' = detail
             /\ (ev'.op = "DW_Send"
                    <=> IsActiveRequest(detail, ev'.request_id, ev'.unit))]_vars

\* The worker of a superseded request completes with logs while the detail
\* view waits for a later request: nothing is applied.
C2_Witness ==
    /\ ev.op = "DW_SendFailed" /\ ev.ok
    /\ ~IsActiveRequest(detail, ev.request_id, ev.unit)
    /\ ev.request_id < detail.next_request_id
    /\ detail.loading

\* C3: at most one refresh worker is outstanding; a worker is spawned only
\* when a refresh is requested, the phase is Idle and no refresh channel is
\* held; the channel is released only on Finished, Error or a disconnect (or
\* when run() returns); a refresh requested while one is in flight stays
\* requested and spawns nothing.
C3_OneRefreshWorker ==
    /\ [](Len(refreshW) <= 1 /\ Cardinality(Running(refreshW)) <= 1)
    /\ [][/\ ev'.op = "SpawnRefresh"
             => /\ refresh_requested /\ phase = "Idle" /\ ~Held(refreshW)
                /\ Held(refreshW') /\ ~refresh_requested'
          /\ (Held(refreshW) /\ ~Held(refreshW'))
             => ev'.op \in {"Finished", "Error", "RefreshDisconnected", "Quit"}
          /\ (pc = "spawn" /\ pc' = "refresh" /\ Held(refreshW))
             => /\ ev'.op = "NoSpawn"
                /\ refreshW' = refreshW
                /\ refresh_requested' = refresh_requested]_vars

\* A refresh was requested while a worker is in flight whose (empty)
\* UnitsLoaded already set the phase back to Idle: the loop top spawns nothing.
C3_Witness ==
    /\ ev.op = "NoSpawn"
    /\ refresh_requested /\ phase = "Idle" /\ Held(refreshW)
    /\ Cardinality(Running(refreshW)) = 1

\* C4 (as stated): at most one detail worker is outstanding at any time.
C4_AtMostOneDetailWorker == Cardinality(Running(detailW)) <= 1

\* C4 (amended): the controller holds at most one detail channel; Refresh in
\* the detail view and RefreshDetail issue a detail fetch only when no detail
\* channel is held and the detail state is not loading; OpenDetail issues
\* its fetch unconditionally, dropping the channel it holds, whose worker
\* keeps running as a superseded request.
C4_OneDetailChannel ==
    /\ [](Cardinality({ i \in 1..Len(detailW) : detailW[i].attached }) <= 1)
    /\ [][/\ (ev'.op \in {"Refresh", "RefreshDetail"} /\ ev'.ok)
             => /\ ~Held(detailW) /\ ~detail.loading
                /\ Len(detailW') = Len(detailW) + 1
                /\ Held(detailW')
          /\ (ev'.op = "OpenDetail" /\ ev'.ok)
             => /\ Held(detailW')
                /\ detailW'[HeldIdx(detailW')].request_id = detail'.next_request_id
                /\ Cardinality(Running(detailW')) = Cardinality(Running(detailW)) + 1
          /\ detailW' # detailW /\ Len(detailW') > Len(detailW)
             => ev'.op \in {"OpenDetail", "Refresh", "RefreshDetail"} /\ ev'.ok]_vars

\* OpenDetail issued a fetch while the worker of the previous request was
\* still running: two detail workers are outstanding.
C4_Witness ==
    /\ ev.op = "OpenDetail" /\ ev.ok
    /\ Cardinality(Running(detailW)) = 2
    /\ Cardinality({ i \in 1..Len(detailW) : detailW[i].attached }) = 1

\* C5: the action-resolution channel and the action channel are never both
\* held, and at most one worker of the two kinds is running; neither
\* RequestStartStop/RequestEnableDisable nor Confirm/ChooseRestart/ChooseStop
\* spawns a worker while one of the two channels is held.
C5_OneActionSlot ==
    /\ [](/\ ~(Held(resolutionW) /\ Held(actionW))
          /\ Cardinality(Running(resolutionW)) + Cardinality(Running(actionW)) <= 1)
    /\ [][/\ (\/ Len(resolutionW') > Len(resolutionW)
              \/ Len(actionW') > Len(actionW)
              \/ (ev'.ok /\ ev'.op \in {"RequestStartStop", "RequestEnableDisable",
                                        "Confirm", "ChooseRestart", "ChooseStop"}))
             => /\ ~Held(resolutionW) /\ ~Held(actionW)
                /\ ev'.ok
                /\ ev'.op \in {"RequestStartStop", "RequestEnableDisable",
                               "Confirm", "ChooseRestart", "ChooseStop"}
                /\ Held(resolutionW') # Held(actionW')]_vars

\* A start/stop request pressed on a selected unit while an action worker is
\* in flight: nothing is spawned.
C5_Witness ==
    /\ ev.op = "RequestStartStop" /\ ~ev.ok
    /\ SelectedUnit(rows, selected_idx) # None
    /\ Held(actionW) /\ ~Held(resolutionW)

\* C6: the load phase moves only along Idle -> FetchingUnits (a refresh
\* worker is spawned), FetchingUnits -> FetchingLogs (UnitsLoaded with rows),
\* FetchingUnits -> Idle (UnitsLoaded without rows, Error, disconnect),
\* FetchingLogs -> FetchingLogs (LogsProgress) and FetchingLogs -> Idle
\* (Finished, Error, disconnect); it never moves from Idle to FetchingLogs
\* nor from FetchingLogs to FetchingUnits.
C6_PhaseEdges ==
    [][/\ <<phase, phase'>> \notin {<<"Idle", "FetchingLogs">>,
                                   <<"FetchingLogs", "FetchingUnits">>}
       /\ (phase = "Idle" /\ phase' = "FetchingUnits") <=> ev'.op = "SpawnRefresh"
       /\ (phase = "FetchingUnits" /\ phase' = "FetchingLogs")
          <=> (ev'.op = "UnitsLoaded" /\ rows' # <<>>)
       /\ (phase = "FetchingUnits" /\ phase' = "Idle")
          <=> /\ phase = "FetchingUnits"
              /\ \/ ev'.op = "UnitsLoaded" /\ rows' = <<>>
                 \/ ev'.op \in {"Error", "RefreshDisconnected"}
       /\ ev'.op = "LogsProgress"
          => phase = "FetchingLogs" /\ phase' = "FetchingLogs"
       /\ (phase = "FetchingLogs" /\ phase' = "Idle")
          <=> /\ phase = "FetchingLogs"
              /\ ev'.op \in {"Finished", "Error", "RefreshDisconnected"}
       /\ ev'.op = "UnitsLoaded" => phase = "FetchingUnits"]_vars

\* A LogsProgress message was applied during FetchingLogs.
C6_Witness ==
    /\ ev.op = "LogsProgress" /\ phase = "FetchingLogs" /\ rows # <<>>

\* What one refresh worker has sent so far is a prefix of: a single Error; or
\* UnitsLoaded, then one LogsProgress per group of LOG_BATCH_SIZE rows (the
\* last group holding the rest) with `done` rising to the total, then one
\* Finished, or one Error in place of a LogsProgress.  The thread has
\* returned exactly when the last message is Finished or Error.
RefreshHistoryOk(w) ==
    LET q == w.queue
        n == Len(q)
        total == Len(q[1].rows)
    IN /\ ThreadFinished(w) <=> (n > 0 /\ q[n].kind \in {"Finished", "Error"})
       /\ \A i \in 1..(n - 1) : q[i].kind \notin {"Finished", "Error"}
       /\ n > 0 =>
            \/ n = 1 /\ q[1].kind = "Error"
            \/ /\ q[1].kind = "UnitsLoaded"
               /\ \A i \in 2..n :
                    \/ /\ q[i].kind = "LogsProgress"
                       /\ q[i].total = total
                       /\ q[i].done > q[i - 1].done
                       /\ q[i].done - q[i - 1].done <= LOG_BATCH_SIZE
                       /\ q[i].done = Min(q[i - 1].done + LOG_BATCH_SIZE, total)
                       /\ DOMAIN q[i].logs =
                            { q[1].rows[k].unit : k \in (q[i - 1].done + 1)..q[i].done }
                    \/ /\ q[i].kind = "Finished"
                       /\ q[i - 1].done = total
                    \/ /\ q[i].kind = "Error"
                       /\ q[i - 1].done < total

\* C7: a refresh worker sends either a single Error, or UnitsLoaded followed
\* (when there are rows) by one LogsProgress per group of at most 12 rows
\* with strictly increasing `done` reaching the total, followed by exactly
\* one terminal message (Finished, or Error when a batch failed); nothing is
\* sent after the terminal message.
C7_RefreshMessageOrder ==
    \A i \in 1..Len(refreshW) : RefreshHistoryOk(refreshW[i])

\* 25 rows: UnitsLoaded, LogsProgress with done 12, 24 and 25, Finished.
C7_Witness ==
    /\ Len(refreshW) = 1
    /\ Len(refreshW[1].queue) = 5
    /\ refreshW[1].queue[2].done = LOG_BATCH_SIZE
    /\ refreshW[1].queue[4].done = 2 * LOG_BATCH_SIZE + 1
    /\ refreshW[1].queue[5].kind = "Finished"

\* C8: applying a refresh Error leaves the rows and the selected index as
\* they were, records the error flag and message, returns the phase to Idle
\* and releases the worker channel, so that a refresh requested afterwards
\* spawns a new worker at the next loop top.
C8_RefreshErrorKeepsRows ==
    [][/\ ev'.op = "Error"
          => /\ rows' = rows
             /\ row_index_by_unit' = row_index_by_unit
             /\ selected_idx' = selected_idx
             /\ last_load_error'
             /\ last_load_error_message' # None
             /\ phase' = "Idle"
             /\ ~Held(refreshW')
             /\ refresh_requested' = refresh_requested
       /\ (pc = "spawn" /\ pc' = "refresh" /\ last_load_error /\ phase = "Idle"
              /\ refresh_requested)
          => /\ ev'.op = "SpawnRefresh"
             /\ Held(refreshW')
             /\ rows' = rows]_vars

\* After a refresh Error on a loaded list the operator pressed Refresh and a
\* new worker was spawned over the stale rows.
C8_Witness ==
    /\ ev.op = "SpawnRefresh"
    /\ last_load_error /\ last_load_error_message # None
    /\ rows # <<>> /\ loaded_once
    /\ Held(refreshW)

\* C9: applying a detail error, an action-resolution error or an action
\* error leaves the rows, the selected index, the phase, the load-error flag
\* and refresh_requested unchanged.
C9_ScopedErrorsFrame ==
    [][ev'.op \in {"DetailLogsError", "ActionResolutionError", "UnitActionError"}
          => /\ rows' = rows
             /\ selected_idx' = selected_idx
             /\ phase' = phase
             /\ last_load_error' = last_load_error
             /\ refresh_requested' = refresh_requested]_vars

\* An action error was applied on a loaded list with no refresh requested,
\* after a detail error had been applied.
C9_Witness ==
    /\ ev.op = "UnitActionError" /\ ev.ok
    /\ detail.error # None
    /\ rows # <<>> /\ ~refresh_requested

\* ---- unit actions under fair scheduling: the loop keeps turning (poll
\* ---- returns after 50 ms at the latest) and every worker thread runs on
ControllerStepAction ==
    \/ LoopStep
    \/ PressQuit \/ PressRefresh
    \/ PressRequestStartStop \/ PressRequestEnableDisable
    \/ PressConfirm \/ PressChooseRestart \/ PressChooseStop \/ PressCancel

FairSpecAction ==
    /\ SpecAction
    /\ WF_vars(ControllerStepAction)
    /\ WF_vars(SteadyRefreshWorkerStep)
    /\ WF_vars(ResolutionWorkerStep)
    /\ WF_vars(ActionWorkerStep)

\* C10: applying UnitActionComplete sets refresh_requested, which stays set
\* until a refresh worker is spawned; the spawn happens at the next loop top
\* when the phase is Idle and no refresh channel is held, and otherwise
\* once the refresh in flight has ended (unless the operator quits first);
\* applying UnitActionError leaves refresh_requested as it was.
C10_ActionCompleteRefreshes ==
    /\ [][/\ ev'.op = "UnitActionComplete" => refresh_requested'
          /\ ev'.op = "UnitActionError" => refresh_requested' = refresh_requested
          /\ (refresh_requested /\ ~refresh_requested') => ev'.op = "SpawnRefresh"
          /\ (pc = "spawn" /\ pc' = "refresh" /\ refresh_requested
                 /\ phase = "Idle" /\ ~Held(refreshW))
             => ev'.op = "SpawnRefresh"]_vars
    /\ (ev.op = "UnitActionComplete") ~> (ev.op = "SpawnRefresh" \/ pc = "quit")

\* UnitActionComplete was applied while a refresh was still in flight.
C10_Witness ==
    /\ ev.op = "UnitActionComplete" /\ ev.ok
    /\ refresh_requested /\ phase # "Idle" /\ Held(refreshW)

\* C11: latest_log_lines_batch, called with a non-empty list of distinct unit
\* names, returns Ok with exactly the requested units as keys, whichever
\* streaming attempts and fallback queries failed; a unit whose fallback query
\* failed maps to the empty string.
C11_BatchAlwaysCoversRequest ==
    (call.fn = "latest_log_lines_batch" /\ call.pc = "done") =>
        /\ call.ret.ok
        /\ DOMAIN call.ret.logs = Seq2Set(call.unit_names)
        /\ \A k \in 1..Len(call.fallbacks) :
               ~call.fallbacks[k].ok => call.ret.logs[call.fallbacks[k].unit] = ""

C11_Witness ==
    /\ call.fn = "latest_log_lines_batch" /\ call.pc = "done"
    /\ Len(call.unit_names) >= 2
    /\ \E k \in 1..Len(call.attempts) : ~call.attempts[k].ok
    /\ \E k \in 1..Len(call.fallbacks) : ~call.fallbacks[k].ok
    /\ \E u \in DOMAIN call.ret.logs : call.ret.logs[u] # ""

\* The units of a batch that no attempt before attempt k has found.
MissingBefore(c, k) ==
    SelectSeq(c.unit_names,
              LAMBDA u : \A j \in 1..(k - 1) : u \notin c.attempts[j].found)

C13_BudgetFormula ==
    (call.fn = "batch_line_budget" /\ call.pc = "done") =>
        /\ call.ret = Min(Max(200, 20 * call.unit_count) * 2 ^ Min(call.attempt, 10),
                          4000)
        /\ (call.unit_count = 1 /\ call.attempt = 0) => call.ret = 200
        /\ call.ret <= 4000
        /\ call.ret >= call.previous
        /\ call.attempt > 10 => call.ret = call.previous

C13_Witness ==
    /\ call.fn = "batch_line_budget" /\ call.pc = "done"
    /\ call.unit_count = 50 /\ call.attempt = 11
    /\ call.ret = 4000 /\ call.previous = 4000

\* Line `line` names unit u and carries a message that is not blank.
NamesWithMessage(line, scope, u) ==
    /\ line.json
    /\ unit_from_journal_entry_for_scope(scope, line) = Some(u)
    /\ Trim(line.message) # ""

\* C14: within one streaming attempt the message recorded for a wanted unit
\* is the trimmed message of the first line read that names the unit and has
\* a non-blank message; a line that is unparsable, names no wanted unit, has a
\* blank message or names a unit already recorded changes nothing; a line is
\* read only while the budget is not consumed and a wanted unit is missing;
\* and an attempt that has found every wanted unit kills the child and
\* returns what it found.
C14_FirstMessagePerUnit ==
    /\ [](call.fn = "stream_batch_latest_logs" =>
            LET s == call.s
            IN /\ DOMAIN s.found \subseteq s.wanted
               /\ s.seen_lines = Len(s.read) /\ s.seen_lines <= s.line_budget
               /\ \A u \in s.wanted :
                      LET q == { i \in 1..Len(s.read) :
                                    NamesWithMessage(s.read[i], s.scope, u) }
                      IN IF q = {} THEN u \notin DOMAIN s.found
                         ELSE /\ u \in DOMAIN s.found
                              /\ s.found[u] =
                                    Trim(s.read[CHOOSE i \in q :
                                                   \A j \in q : i <= j].message)
               /\ (s.pc = "done" /\ DOMAIN s.found = s.wanted) =>
                      /\ s.child = "killed"
                      /\ s.ret = [ok |-> TRUE, found |-> s.found, error |-> ""]
               /\ (s.pc = "done" /\ s.ret.ok /\ DOMAIN s.found # s.wanted) =>
                      /\ s.child = "exited"
                      /\ s.seen_lines = s.line_budget \/ s.lines = <<>>)
    /\ [][(call.fn = "stream_batch_latest_logs" /\ call'.s.read # call.s.read) =>
            LET s == call.s
                line == Head(s.lines)
            IN /\ s.seen_lines < s.line_budget
               /\ DOMAIN s.found # s.wanted
               /\ call'.s.read = Append(s.read, line)
               /\ (\A u \in s.wanted \ DOMAIN s.found :
                       ~NamesWithMessage(line, s.scope, u))
                     => call'.s.found = s.found
               /\ \A u \in DOMAIN s.found : call'.s.found[u] = s.found[u]]_vars

C14_Witness ==
    /\ call.fn = "stream_batch_latest_logs"
    /\ call.s.pc = "done" /\ call.s.ret.ok /\ call.s.child = "exited"
    /\ call.s.wanted = {1, 2}
    /\ call.s.read = <<UnitLine(1, " b "), UnitLine(1, "a")>>
    /\ call.s.ret.found = [u \in {1} |-> "b"]

\* The scenario of C15: 3 units requested, and the first streaming attempt
\* has returned with messages for exactly 2 of them.
TwoOfThreeFound ==
    /\ call.fn = "latest_log_lines_batch"
    /\ Len(call.unit_names) = 3
    /\ Len(call.attempts) >= 1
    /\ call.attempts[1].ok
    /\ Cardinality(call.attempts[1].found) = 2

\* The unit the first attempt of the scenario left without a message.
ThirdUnit == CHOOSE u \in Seq2Set(call.unit_names) : u \notin call.attempts[1].found

FallbackUnits == { call.fallbacks[k].unit : k \in 1..Len(call.fallbacks) }

\* C15 as claimed: in the scenario the first query is killed early, the 3rd
\* unit is resolved via the single-unit fallback, and the final result has
\* exactly 3 entries, none empty unless the fallback found nothing.
C15_TwoOfThreeKilledEarly ==
    TwoOfThreeFound =>
        /\ call.attempts[1].killed
        /\ call.pc = "done" =>
               /\ ThirdUnit \in FallbackUnits
               /\ call.ret.ok
               /\ DOMAIN call.ret.logs = Seq2Set(call.unit_names)
               /\ \A u \in DOMAIN call.ret.logs :
                      call.ret.logs[u] = "" => u \in FallbackUnits

\* C15, amended: in the scenario the first query is not killed (a query that
\* returns Ok was killed exactly when it found every unit it asked for); the
\* 3rd unit is queried alone by every later attempt and goes to the fallback
\* exactly when no attempt found it; the final result has exactly 3 entries,
\* none empty unless it came from the fallback.
C15_TwoOfThreeThenRetry ==
    TwoOfThreeFound =>
        /\ ~call.attempts[1].killed
        /\ \A k \in 1..Len(call.attempts) :
               /\ call.attempts[k].ok =>
                      (call.attempts[k].killed <=>
                          call.attempts[k].found = Seq2Set(call.attempts[k].units))
               /\ k >= 2 => call.attempts[k].units = <<ThirdUnit>>
        /\ call.pc = "done" =>
               /\ ThirdUnit \in FallbackUnits <=>
                      \A k \in 1..Len(call.attempts) :
                          ThirdUnit \notin call.attempts[k].found
               /\ FallbackUnits \subseteq {ThirdUnit}
               /\ call.ret.ok
               /\ DOMAIN call.ret.logs = Seq2Set(call.unit_names)
               /\ \A u \in DOMAIN call.ret.logs :
                      call.ret.logs[u] = "" => u \in FallbackUnits

C15_Witness ==
    /\ TwoOfThreeFound
    /\ call.pc = "done"
    /\ Len(call.attempts) = 3
    /\ call.fallbacks = <<[unit |-> 3, ok |-> TRUE]>>
    /\ call.ret.logs = [u \in {1, 2, 3} |-> "a"]

\* C16: seed_logs_from_previous gives each new row the log cell of the
\* previous row of the same unit name, leaves the log cell of a row without a
\* previous namesake empty, and changes no other field of any row.
C16_SeedLogsByUnitName ==
    (call.fn = "seed_logs_from_previous" /\ call.pc = "done") =>
        /\ Len(call.ret) = Len(call.new_rows)
        /\ \A i \in 1..Len(call.ret) :
               LET namesakes == { j \in 1..Len(call.previous_rows) :
                                    call.previous_rows[j].unit = call.new_rows[i].unit }
               IN /\ call.ret[i].unit = call.new_rows[i].unit
                  /\ call.ret[i].load = call.new_rows[i].load
                  /\ call.ret[i].active = call.new_rows[i].active
                  /\ call.ret[i].sub = call.new_rows[i].sub
                  /\ namesakes = {} => call.ret[i].last_log = ""
                  /\ \A j \in namesakes :
                         call.ret[i].last_log = call.previous_rows[j].last_log

C16_Witness ==
    /\ call.fn = "seed_logs_from_previous" /\ call.pc = "done"
    /\ Len(call.previous_rows) = 2
    /\ call.previous_rows[1].unit = 1 /\ call.previous_rows[1].last_log = "A"
    /\ call.previous_rows[2].unit = 2 /\ call.previous_rows[2].last_log = "B"
    /\ Len(call.new_rows) = 2
    /\ call.new_rows[1].unit = 2 /\ call.new_rows[2].unit = 3
    /\ call.ret[1].last_log = "B" /\ call.ret[2].last_log = ""

\* C18: when a fresh row set replaces the rows, the selection follows the
\* previously selected unit to its new index if that unit is still present;
\* otherwise the numeric index is kept if it is within the new rows, clamped to
\* the last row if not, and 0 for an empty row set.
C18_SelectionFollowsUnit ==
    (call.fn = "preserve_selection" /\ call.pc = "done") =>
        LET old == call.rows
            new == call.new_rows
            sel == call.selected_idx
            present == { i \in 1..Len(new) :
                           old # <<>> /\ new[i].unit = old[sel + 1].unit }
        IN IF present # {}
           THEN call.ret + 1 \in present
           ELSE IF new = <<>> THEN call.ret = 0
           ELSE IF sel < Len(new) THEN call.ret = sel
           ELSE call.ret = Len(new) - 1

C18_Witness ==
    /\ call.fn = "preserve_selection" /\ call.pc = "done"
    /\ Len(call.rows) = 2
    /\ call.rows[1].unit = 1 /\ call.rows[2].unit = 2
    /\ call.selected_idx = 1
    /\ Len(call.new_rows) = 2
    /\ call.new_rows[1].unit = 2 /\ call.new_rows[2].unit = 3
    /\ call.ret = 0

\* C17: during a refresh cycle the display never regresses to blank: no step
\* (UnitsLoaded, LogsProgress, Finished or any other) leaves a unit with an
\* empty log cell whose row showed a non-empty log cell before the step. Rows
\* change only by the messages of the one refresh worker, so a cell that is
\* non-empty when LogsProgress arrives was seeded from before the refresh.
C17_NoBlankRegression ==
    [][\A i \in 1..Len(rows) : \A j \in 1..Len(rows') :
           (rows'[j].unit = rows[i].unit /\ rows[i].last_log # "")
               => rows'[j].last_log # ""]_vars

\* C19: trusted resolution never accepts a candidate located in a
\* group- or other-writable directory, nor one whose canonical file name
\* differs from the requested program name: the file a successful
\* resolution returns lies in a directory that is not group- or
\* other-writable and bears the requested name.
C19_NeverAcceptsWritableDirOrOtherName ==
    (call.fn = "resolve_trusted_binary_in" /\ call.pc = "done" /\ call.ret.ok) =>
        /\ is_secure_dir(call.fs, call.ret.path.dir)
        /\ call.ret.path.name = call.binary

\* The distinct elements of a sequence, in the order of their first occurrence.
RECURSIVE FirstOccurrences(_)
FirstOccurrences(seq) ==
    IF seq = <<>> THEN <<>>
    ELSE LET front == FirstOccurrences(SubSeq(seq, 1, Len(seq) - 1))
             last == seq[Len(seq)]
         IN IF last \in Seq2Set(front) THEN front ELSE Append(front, last)

\* The candidate `dir/binary` is a regular executable file and passes the
\* trust check.
PassesTrustCheck(c, dir) ==
    /\ is_file(c.fs, dir, c.binary)
    /\ is_executable(c.fs, dir, c.binary)
    /\ canonical_trusted_candidate(c.fs, dir, c.binary, c.trusted_roots) # None

\* C20: resolve_trusted_binary_in rejects a program name other than systemctl
\* and journalctl before looking at any directory; otherwise it looks at the
\* candidates of the trusted directories, then of the PATH entries, each
\* distinct candidate once, returns the canonical path of the first that is a
\* regular executable file passing the trust check, and fails with the message
\* naming the program when none passes.
C20_FirstTrustedCandidateWins ==
    call.fn = "resolve_trusted_binary_in" =>
        LET chain == call.trusted_dirs \o call.path_entries
            done == call.pc = "done"
            allowed == call.binary \in {"systemctl", "journalctl"}
            n == Len(call.looked)
        IN /\ ~allowed =>
                  /\ call.looked = <<>>
                  /\ done => /\ ~call.ret.ok
                              /\ call.ret.binary = call.binary
                              /\ call.ret.message =
                                     "binary is not in the allowed external command list"
           /\ call.looked = FirstOccurrences(SubSeq(chain, 1, call.k - 1))
           /\ \A i \in 1..n :
                  PassesTrustCheck(call, call.looked[i]) <=>
                      (done /\ call.ret.ok /\ i = n)
           /\ (done /\ call.ret.ok) =>
                  /\ n > 0
                  /\ Some(call.ret.path) =
                         canonicalize(call.fs, call.looked[n], call.binary)
           /\ (done /\ allowed /\ ~call.ret.ok) =>
                  /\ call.k = Len(chain) + 1
                  /\ call.ret.message =
                         IF call.binary = "systemctl"
                         THEN "no systemctl command found, do use systemd?"
                         ELSE "no journalctl command found, do use systemd?"

C20_Witness ==
    /\ call.fn = "resolve_trusted_binary_in" /\ call.pc = "done"
    /\ call.binary = "journalctl"
    /\ call.trusted_dirs = <<1>> /\ call.path_entries = <<3>>
    /\ call.fs.entry[1] = PlainFile
    /\ call.looked = <<1, 3>>
    /\ call.ret.ok /\ call.ret.path = [dir |-> 3, name |-> "journalctl"]

\* C21 as claimed: the call returns success with the captured stdout if the
\* child exits with status zero before the deadline, NonZeroExit with the
\* status and the captured stderr if it exits unsuccessfully before the
\* deadline, and Timeout if the deadline elapses while the child is still
\* running, in which case the child has been killed and reaped and both
\* reader threads joined before the return.
C21_OutcomeByDeadline ==
    (call.fn = "cmd_stdout_with_timeout" /\ call.pc = "done" /\ call.spawn_ok) =>
        /\ (call.exit_before_deadline /\ call.status = 0) =>
               call.ret = [kind |-> "Ok", stdout |-> call.wrote.out]
        /\ (call.exit_before_deadline /\ call.status # 0) =>
               call.ret = [kind |-> "NonZeroExit", status |-> call.status,
                           stderr |-> call.wrote.err]
        /\ call.running_at_deadline => call.ret.kind = "Timeout"
        /\ call.ret.kind = "Timeout" =>
               /\ call.kill_sent /\ call.child = "reaped"
               /\ call.joined.out /\ call.joined.err

\* C21, amended: the outcome follows what the wait loop finds when it polls.
\* A poll that finds the child exited gives success with everything the child
\* wrote to stdout (status zero) or NonZeroExit with the status and everything
\* it wrote to stderr; a poll that finds it running, followed by the deadline
\* found elapsed, gives Timeout after the kill, the reaping wait and both
\* joins. Success and NonZeroExit are never returned for a killed child.
C21_OutcomeByPoll ==
    (call.fn = "cmd_stdout_with_timeout" /\ call.pc = "done" /\ call.spawn_ok) =>
        /\ call.polled \in {"exited", "running"}
        /\ call.polled = "exited" =>
               /\ ~call.kill_sent
               /\ call.ret = IF call.status = 0
                             THEN [kind |-> "Ok", stdout |-> call.wrote.out]
                             ELSE [kind |-> "NonZeroExit", status |-> call.status,
                                   stderr |-> call.wrote.err]
        /\ call.polled = "running" =>
               /\ call.ret = [kind |-> "Timeout"]
               /\ call.deadline /\ call.kill_sent /\ call.child = "reaped"
               /\ call.joined.out /\ call.joined.err

C21_Witness ==
    /\ call.fn = "cmd_stdout_with_timeout" /\ call.pc = "done"
    /\ call.hangs /\ call.wrote.out > 0
    /\ call.ret.kind = "Timeout"
    /\ call.child = "reaped" /\ call.joined.out /\ call.joined.err

\* C22: cmd_stdout_with_timeout always eventually returns, whatever the child
\* does: it fills the pipes in any order, never exits, or leaves its pipes
\* open past the deadline.
C22_AlwaysReturns == <>(call.fn = "cmd_stdout_with_timeout" /\ call.pc = "done")

\* C23: a start/stop resolution whose property read succeeds yields the
\* restart-or-stop prompt exactly when the active state is active, activating,
\* deactivating or reloading, and the confirm-Start prompt for every other
\* state; no start/stop resolution yields a confirm-Stop or confirm-Restart
\* prompt.
C23_StartStopPrompt ==
    (/\ call.fn = "resolve_action_confirmation" /\ call.pc # "resolve"
     /\ call.request.kind = "StartStop") =>
        /\ call.read_ok =>
               /\ call.msg.kind = "ActionConfirmationReady"
               /\ call.msg.confirmation =
                      IF call.value \in {"active", "activating", "deactivating",
                                         "reloading"}
                      THEN [kind |-> "RestartOrStop", action |-> "",
                            unit |-> call.request.unit]
                      ELSE [kind |-> "ConfirmAction", action |-> "Start",
                            unit |-> call.request.unit]
        /\ call.msg.kind = "ActionConfirmationReady" =>
               ~(/\ call.msg.confirmation.kind = "ConfirmAction"
                 /\ call.msg.confirmation.action \in {"Stop", "Restart"})
        /\ (call.pc = "done" /\ call.msg.kind = "ActionConfirmationReady") =>
               call.applied.confirmation = Some(call.msg.confirmation)

C23_Witness ==
    /\ call.fn = "resolve_action_confirmation" /\ call.pc = "done"
    /\ call.request.kind = "StartStop" /\ call.read_ok
    /\ call.value = "reloading"
    /\ call.applied.confirmation = Some(restart_or_stop(call.request.unit))

\* C24: an enable/disable resolution whose property read succeeds offers
\* Disable for enabled, enabled-runtime, linked and linked-runtime, offers
\* Enable for disabled, and for every other state sends an
\* ActionResolutionError whose message names that state; applying that error
\* leaves no confirmation pending (so nothing can be confirmed into an action
\* worker) and shows the message in the status line.
C24_EnableDisablePrompt ==
    (/\ call.fn = "resolve_action_confirmation" /\ call.pc # "resolve"
     /\ call.request.kind = "EnableDisable" /\ call.read_ok) =>
        IF call.value \in {"enabled", "enabled-runtime", "linked", "linked-runtime"}
        THEN /\ call.msg.kind = "ActionConfirmationReady"
             /\ call.msg.confirmation =
                    [kind |-> "ConfirmAction", action |-> "Disable",
                     unit |-> call.request.unit]
        ELSE IF call.value = "disabled"
        THEN /\ call.msg.kind = "ActionConfirmationReady"
             /\ call.msg.confirmation =
                    [kind |-> "ConfirmAction", action |-> "Enable",
                     unit |-> call.request.unit]
        ELSE /\ call.msg.kind = "ActionResolutionError"
             /\ call.msg.unit = call.request.unit
             /\ call.msg.error =
                    "unit file state '" \o call.value
                        \o "' does not support enable/disable"
             /\ call.pc = "done" =>
                    /\ call.applied.confirmation = None
                    /\ call.applied.status_line.text = call.msg.error

C24_Witness ==
    /\ call.fn = "resolve_action_confirmation" /\ call.pc = "done"
    /\ call.request.kind = "EnableDisable" /\ call.read_ok
    /\ call.value = "static"
    /\ call.msg.kind = "ActionResolutionError"
    /\ call.applied.confirmation = None

\* C25: a confirmation becomes pending (or is replaced by another one) only
\* in the step that applies an ActionConfirmationReady message, and every
\* Confirm, ChooseRestart, ChooseStop and Cancel command leaves no
\* confirmation pending.
C25_ConfirmationLifecycle ==
    [][ /\ (confirmation' # None /\ confirmation' # confirmation) =>
               /\ pc = "resolution"
               /\ ev'.op = "ActionConfirmationReady"
        /\ (pc = "input" /\ ev'.op \in {"Confirm", "ChooseRestart", "ChooseStop",
                                        "Cancel"}) =>
               confirmation' = None ]_vars

C25_Witness ==
    /\ ev.op = "Cancel" /\ pc = "spawn"
    /\ confirmation = None
    /\ ~Held(resolutionW) /\ ~Held(actionW)

\* The step puts a fresh worker behind action_worker_rx.
ActionWorkerSpawned ==
    /\ Held(actionW')
    /\ LET w == actionW'[HeldIdx(actionW')]
       IN /\ w.pc = "run" /\ w.queue = <<>>
          /\ \/ ~Held(actionW)
             \/ actionW[HeldIdx(actionW)] # w
             \/ Len(actionW') > Len(actionW)

\* C29: an action worker is spawned only by a Confirm, ChooseRestart or
\* ChooseStop command executed while a confirmation is pending, and for that
\* confirmation's unit; Restart and Stop come only from the restart-or-stop
\* prompt, Start, Enable and Disable only from a single-action prompt that
\* carries that action.  The confirmation's unit is the unit of the request
\* that was resolved, which is the unit selected when the request key was
\* pressed.
C29_ActionWorkerProvenance ==
    [][ /\ ActionWorkerSpawned =>
               LET w == actionW'[HeldIdx(actionW')]
               IN /\ pc = "input" /\ confirmation # None
                  /\ ev'.op \in {"Confirm", "ChooseRestart", "ChooseStop"}
                  /\ w.unit = Pending.unit
                  /\ w.action \in {"Start", "Stop", "Restart", "Enable", "Disable"}
                  /\ w.action = "Restart" =>
                         Pending.kind = "RestartOrStop" /\ ev'.op = "ChooseRestart"
                  /\ w.action = "Stop" =>
                         Pending.kind = "RestartOrStop" /\ ev'.op = "ChooseStop"
                  /\ w.action \in {"Start", "Enable", "Disable"} =>
                         /\ Pending.kind = "ConfirmAction" /\ ev'.op = "Confirm"
                         /\ Pending.action = w.action
        /\ (pc = "input" /\ ev'.op \in {"RequestStartStop", "RequestEnableDisable"}
                /\ ev'.ok) =>
               /\ selected_idx < Len(rows)
               /\ resolutionW'[HeldIdx(resolutionW')].request.unit =
                      rows[selected_idx + 1].unit
        /\ (pc = "resolution" /\ ev'.op = "ActionConfirmationReady") =>
               /\ confirmation' # None
               /\ \A c \in confirmation' :
                      c.unit = resolutionW[HeldIdx(resolutionW)].request.unit ]_vars

\* An action worker runs for the unit of the confirmation although another
\* unit is selected by the time the prompt is answered.
C29_Witness ==
    /\ ev.op = "ChooseRestart" /\ ev.ok /\ pc = "spawn"
    /\ Held(actionW)
    /\ actionW[HeldIdx(actionW)].unit = ev.unit
    /\ actionW[HeldIdx(actionW)].action = "Restart"
    /\ selected_idx < Len(rows)
    /\ rows[selected_idx + 1].unit # ev.unit

\* C30: while a confirmation is pending, a pass through the key dispatch
\* either executes Confirm, ChooseRestart, ChooseStop or Cancel through a key
\* that the pending prompt kind maps to it, or changes no controller state
\* and starts no worker: quit, refresh, navigation, open-detail and new
\* action requests are not executed.
C30_PromptSwallowsOtherKeys ==
    [][ (confirmation # None /\ pc = "input" /\ pc' # "input") =>
            \/ /\ ev'.op \in {"Confirm", "ChooseRestart", "ChooseStop", "Cancel"}
               /\ \E key \in Keys : map_confirmation_key(Pending.kind, key) = ev'.op
            \/ /\ ev'.op = "NoCommand"
               /\ pc' = "spawn"
               /\ UNCHANGED <<config, listVars, view_mode, detail, confirmation,
                              statusVars, workerVars>> ]_vars

\* A prompt is still pending after a pass through the key dispatch, in the
\* detail view, where Esc would otherwise go back to the list.
C30_Witness ==
    /\ confirmation # None
    /\ ev.op = "NoCommand" /\ pc = "spawn"
    /\ view_mode = "Detail"

\* C26: every id returned by begin_for_unit and by a refresh of a state that
\* has a unit is one more than the id returned before it (the first is 1),
\* so the ids strictly increase; the active request id is the id returned
\* last, and no other method changes either; refresh on a state without a
\* unit returns None and changes nothing.
C26_RequestIdsIncrease ==
    [][ /\ ev'.op = "begin_for_unit" =>
               /\ ev'.request_id = detail.next_request_id + 1
               /\ detail'.next_request_id = ev'.request_id
               /\ detail'.active_request_id = Some(ev'.request_id)
        /\ (ev'.op = "refresh" /\ detail.unit # NoUnit) =>
               /\ refresh(detail).ret = Some(detail.next_request_id + 1)
               /\ detail'.next_request_id = detail.next_request_id + 1
               /\ detail'.active_request_id = refresh(detail).ret
        /\ (ev'.op = "refresh" /\ detail.unit = NoUnit) =>
               /\ refresh(detail).ret = None
               /\ detail' = detail
        /\ ev'.op \notin {"begin_for_unit", "refresh"} =>
               /\ detail'.next_request_id = detail.next_request_id
               /\ detail'.active_request_id = detail.active_request_id
        /\ detail'.active_request_id =
               IF detail'.next_request_id = 0 THEN None
               ELSE Some(detail'.next_request_id) ]_vars

C26_Witness ==
    /\ ev.op = "refresh" /\ ev.ok
    /\ ev.request_id = 2
    /\ detail.active_request_id = Some(2)

\* C27: begin_for_unit sets the unit, empties the logs, resets the scroll
\* offset to 0, sets loading and clears the error; a refresh of a state that
\* has a unit sets loading and clears the error and leaves unit, logs and
\* scroll offset as they were; every entry of the detail logs belongs to the
\* unit shown.
C27_BeginResetsRefreshKeeps ==
    [][ /\ ev'.op = "begin_for_unit" =>
               /\ detail'.unit = ev'.unit
               /\ detail'.logs = <<>>
               /\ detail'.scroll = 0
               /\ detail'.loading
               /\ detail'.error = None
        /\ (ev'.op = "refresh" /\ detail.unit # NoUnit) =>
               /\ detail'.loading
               /\ detail'.error = None
               /\ detail'.unit = detail.unit
               /\ detail'.logs = detail.logs
               /\ detail'.scroll = detail.scroll
        /\ \A i \in 1..Len(detail'.logs) : detail'.logs[i] = detail'.unit ]_vars

\* begin_for_unit for another unit, on a state that showed logs, an error
\* and a scroll offset.
C27_Witness ==
    /\ ev.op = "begin_for_unit"
    /\ detail.unit = 2
    /\ detail.logs = <<>> /\ detail.scroll = 0 /\ detail.loading
    /\ detail.next_request_id = 2

\* The sort key of the unrestricted mode as the ranks
\* loaded < not-found < other, active < inactive < other,
\* running < exited < dead < other, then the unit name.
SortKey(r) ==
    << CASE r.load = "loaded" -> 0 [] r.load = "not-found" -> 1 [] OTHER -> 2,
       CASE r.active = "active" -> 0 [] r.active = "inactive" -> 1 [] OTHER -> 2,
       CASE r.sub = "running" -> 0 [] r.sub = "exited" -> 1
         [] r.sub = "dead" -> 2 [] OTHER -> 3,
       r.unit >>

\* k1 <= k2 in the lexicographic order of 4-tuples
SortKeyLeq(k1, k2) ==
    \/ k1 = k2
    \/ \E i \in 1..4 : k1[i] < k2[i] /\ \A j \in 1..(i - 1) : k1[j] = k2[j]

Occurrences(rs, r) == Cardinality({ i \in 1..Len(rs) : rs[i] = r })

\* C28: in unrestricted mode sort_rows leaves the rows in non-decreasing
\* order of (load rank, active rank, sub rank, unit name), in restricted mode
\* in non-decreasing order of the unit name; in both modes the output holds
\* the same rows as the input, each as often; sorting the output again
\* returns it unchanged.
C28_SortRowsOrder ==
    (call.fn = "sort_rows" /\ call.pc # "call") =>
        /\ Len(call.sorted) = Len(call.rows)
        /\ \A i \in 1..Len(call.rows) :
               Occurrences(call.sorted, call.rows[i]) =
                   Occurrences(call.rows, call.rows[i])
        /\ \A i, j \in 1..Len(call.sorted) :
               i < j =>
                   IF call.show_all
                   THEN SortKeyLeq(SortKey(call.sorted[i]), SortKey(call.sorted[j]))
                   ELSE call.sorted[i].unit <= call.sorted[j].unit
        /\ call.pc = "done" => call.resorted = call.sorted

\* Two rows that the sub rank alone puts in the other order than their names.
C28_Witness ==
    /\ call.fn = "sort_rows" /\ call.pc = "done"
    /\ call.show_all
    /\ Len(call.rows) = 2
    /\ call.rows[1].unit < call.rows[2].unit
    /\ call.rows[1].sub = "dead" /\ call.rows[2].sub = "exited"
    /\ call.sorted = <<call.rows[2], call.rows[1]>>

\* C31: applying a LogsProgress message keeps the number of rows, their
\* order, the unit, load, active and sub field of every row, the unit index
\* and the selected index; the log cell of a row changes only if the row's
\* unit is named in the message (it becomes the message's log for that
\* unit), and entries naming a unit that has no row change nothing.
C31_LogsProgressFrame ==
    (call.fn = "OnLogsProgress" /\ call.pc = "done") =>
        LET old == call.L.rows
            new == call.ret.rows
        IN /\ Len(new) = Len(old)
           /\ call.ret.selected_idx = call.L.selected_idx
           /\ call.ret.row_index_by_unit = call.L.row_index_by_unit
           /\ \A i \in 1..Len(old) :
                  /\ new[i].unit = old[i].unit
                  /\ new[i].load = old[i].load
                  /\ new[i].active = old[i].active
                  /\ new[i].sub = old[i].sub
                  /\ new[i].last_log =
                         IF old[i].unit \in DOMAIN call.logs
                         THEN call.logs[old[i].unit]
                         ELSE old[i].last_log

\* A message that names a shown unit and a unit that has no row, applied to
\* a list with a second row the message does not name.
C31_Witness ==
    /\ call.fn = "OnLogsProgress" /\ call.pc = "done"
    /\ Len(call.L.rows) = 2
    /\ call.L.rows[1].unit \in DOMAIN call.logs
    /\ call.L.rows[2].unit \notin DOMAIN call.logs
    /\ call.L.rows[2].last_log = "A"
    /\ \E u \in DOMAIN call.logs : \A i \in 1..2 : call.L.rows[i].unit # u
    /\ call.ret.rows[1].last_log = "C"
    /\ call.ret.rows[2].last_log = "A"

\* C32: in every reachable controller state the selected index is 0 when
\* the row list is empty and smaller than the number of rows otherwise.
C32_SelectionInRange ==
    IF rows = <<>> THEN selected_idx = 0 ELSE selected_idx < Len(rows)

\* A UnitsLoaded message applied while the selection is on the second row,
\* which MoveDown had reached.
C32_Witness ==
    /\ ev.op = "UnitsLoaded"
    /\ Len(rows) = 2
    /\ selected_idx = 1

\* C33: in every state reached through begin_for_unit, refresh, apply_loaded,
\* apply_error and the MoveUp/MoveDown keys of the detail view, the scroll
\* offset is 0 when the detail logs are empty and an index into the logs
\* otherwise.
C33_ScrollInRange ==
    IF detail.logs = <<>> THEN detail.scroll = 0
    ELSE detail.scroll < Len(detail.logs)

\* The offset is on the last of two entries while a refresh is in flight.
C33_Witness ==
    /\ ev.op = "refresh" /\ ev.ok
    /\ detail.loading
    /\ Len(detail.logs) = 2
    /\ detail.scroll = 1

\* C34: between ticks of the controller (at the top of the loop) the detail
\* loading flag is true exactly when a detail worker channel is held.
C34_LoadingIffDetailChannel ==
    pc = "spawn" => (detail.loading <=> Held(detailW))

\* C35: with the loop turning and the refresh worker running on, a set
\* refresh_requested leads to the spawn of a refresh worker (which clears
\* it), and a held refresh channel leads to the phase Idle with the channel
\* released.
C35_RefreshLiveness ==
    /\ refresh_requested ~> (ev.op = "SpawnRefresh" /\ ~refresh_requested)
    /\ Held(refreshW) ~> (phase = "Idle" /\ ~Held(refreshW))

\* A cycle ended through the disconnect of a panicked worker, and the next
\* refresh is already requested.
C35_Witness ==
    /\ ev.op = "RefreshDisconnected"
    /\ phase = "Idle" /\ ~Held(refreshW)
    /\ refresh_requested
    /\ loaded_once

\* C36: with the loop turning and every detail worker sending its message,
\* a detail view that is loading stops loading (the result or error of its
\* request is applied) unless a later request is issued first; no request
\* is left loading forever.
C36_DetailLiveness ==
    detail.loading
        ~> (\/ ~detail.loading
            \/ ev.op \in {"OpenDetail", "RefreshDetail"} /\ ev.ok)

\* The result of the second request is applied after the first request was
\* replaced while its worker was still running.
C36_Witness ==
    /\ ev.op = "DetailLogsLoaded" /\ ev.ok
    /\ ev.request_id = 2
    /\ ~detail.loading
    /\ \E i \in 1..Len(detailW) : ~detailW[i].attached /\ detailW[i].request_id = 1

\* Some streaming attempt of the call has failed.
AttemptFailed(c) == \E k \in 1..Len(c.attempts) : ~c.attempts[k].ok

\* C37: in latest_log_lines_batch a failed streaming attempt ends the retry
\* loop: it changes neither the results nor the unresolved units, no further
\* attempt is started after it, and by the time the call returns every
\* unresolved unit has had its single-unit fallback query; a result of an
\* earlier attempt is never overwritten, and a unit that has a result is
\* neither streamed for again nor queried by the fallback.
C37_FailedAttemptEndsLoop ==
    [][ call.fn = "latest_log_lines_batch" =>
          /\ (ev'.op = "JB_Merge" /\ ~ev'.ok) =>
                 /\ call'.pc = "fallback"
                 /\ call'.out = call.out
                 /\ call'.unresolved = call.unresolved
          /\ AttemptFailed(call) =>
                 /\ call'.pc \in {"fallback", "done"}
                 /\ call'.attempts = call.attempts
                 /\ call'.unresolved = call.unresolved
          /\ \A u \in DOMAIN call.out :
                 Trim(call.out[u]) # "" =>
                     u \in DOMAIN call'.out /\ call'.out[u] = call.out[u]
          /\ ev'.op = "JB_Attempt" =>
                 \A i \in 1..Len(call'.s.unit_names) :
                     call'.s.unit_names[i] \notin DOMAIN call.out
          /\ ev'.op = "JB_Fallback" =>
                 \/ ev'.unit \notin DOMAIN call.out
                 \/ Trim(call.out[ev'.unit]) = ""
          /\ (AttemptFailed(call') /\ call'.pc = "done") =>
                 \A i \in 1..Len(call'.unresolved) :
                     \E j \in 1..Len(call'.fallbacks) :
                         call'.fallbacks[j].unit = call'.unresolved[i] ]_vars

\* The second attempt failed after the first had resolved one of three
\* units: the call returned with that result and two fallback queries.
C37_Witness ==
    /\ call.fn = "latest_log_lines_batch" /\ call.pc = "done"
    /\ Len(call.unit_names) = 3
    /\ Len(call.attempts) = 2
    /\ call.attempts[1].ok /\ ~call.attempts[2].ok
    /\ Len(call.unresolved) = 2
    /\ Len(call.fallbacks) = 2
    /\ Cardinality(DOMAIN call.out) = 3

\* C38: the unit attributed to a journal record is the value of the first
\* field present as a string in the scope's ordered field list (seven fields
\* for the system scope, eight for the personal scope); a record with none of
\* them is attributed to no unit.
C38_FirstPresentField ==
    (call.fn = "unit_from_journal_entry_for_scope" /\ call.pc = "done") =>
        LET list == IF call.scope = "System"
                    THEN <<"_SYSTEMD_UNIT", "UNIT", "USER_UNIT",
                           "OBJECT_SYSTEMD_UNIT", "COREDUMP_UNIT",
                           "COREDUMP_USER_UNIT", "_SYSTEMD_USER_UNIT">>
                    ELSE <<"_SYSTEMD_USER_UNIT", "USER_UNIT", "UNIT",
                           "OBJECT_SYSTEMD_USER_UNIT", "OBJECT_SYSTEMD_UNIT",
                           "COREDUMP_USER_UNIT", "COREDUMP_UNIT",
                           "_SYSTEMD_UNIT">>
            IsString(key) == /\ key \in DOMAIN call.object.strings
                             /\ key \notin call.object.others
        IN \/ \E i \in 1..Len(list) :
                  /\ IsString(list[i])
                  /\ \A j \in 1..(i - 1) : ~IsString(list[j])
                  /\ call.ret = Some(call.object.strings[list[i]])
           \/ /\ \A i \in 1..Len(list) : ~IsString(list[i])
              /\ call.ret = None

\* A system-scope record whose _SYSTEMD_UNIT is not a string and which has
\* both UNIT and _SYSTEMD_USER_UNIT as strings: attributed to UNIT's value.
C38_Witness ==
    /\ call.fn = "unit_from_journal_entry_for_scope" /\ call.pc = "done"
    /\ call.scope = "System"
    /\ "_SYSTEMD_UNIT" \in call.object.others
    /\ {"UNIT", "_SYSTEMD_USER_UNIT"} \subseteq
           DOMAIN call.object.strings \ call.object.others
    /\ call.ret = Some(call.object.strings["UNIT"])

\* C39: the running-only list query is selected exactly when the active
\* filter is "active", the sub filter is "running" and the load filter is
\* "all" or "loaded"; for every filter configuration, filter_services applied
\* to the result of the selected query yields the same units as filter_services
\* applied to the full unit set.
C39_CheapQueryEquivalent ==
    (call.fn = "fetch_filtered" /\ call.pc = "done") =>
        /\ ~call.fetch_all <=>
               /\ call.cfg.active_filter = "active"
               /\ call.cfg.sub_filter = "running"
               /\ call.cfg.load_filter \in {"all", "loaded"}
        /\ call.ret = filter_services(call.host, call.cfg)

\* The running-only query was selected on a host with a running unit that
\* the filters show and an exited unit that the query does not list.
C39_Witness ==
    /\ call.fn = "fetch_filtered" /\ call.pc = "done"
    /\ ~call.fetch_all
    /\ call.cfg.load_filter = "loaded"
    /\ Len(call.host) = 2
    /\ call.host[1].sub = "exited"
    /\ Len(call.ret) = 1
    /\ call.ret[1] = call.host[2]

====
